---- MODULE Spec2Model ----
(***************************************************************************)
(* State-machine model of the Telegram escrow bot (src/main_v2.py).        *)
(*                                                                         *)
(* The persistent state is the two MongoDB collections; the volatile state *)
(* is python-telegram-bot's per-user user_data dictionary and the state of *)
(* the three ConversationHandlers.  Every handler that issues a storage    *)
(* read followed by a storage write is modelled in two steps: the first    *)
(* step runs the handler up to (and including) its find_one/count and its  *)
(* early returns and leaves a record in `inflight`; the second step        *)
(* performs the update_one/insert_one and the messages that follow it.     *)
(*                                                                         *)
(* Money is counted in cents; a trade id TEB-0000k is the number k.        *)
(*                                                                         *)
(* The handlers are modelled as they are written to behave once the module *)
(* is loaded and MongoDB is connected: the guards `if not users_collection`*)
(* and `if not trades_collection` are taken as "the collection is None",   *)
(* which is false after the connection at lines 64-69, and the keyword     *)
(* arguments spelled parse_mode=\'Markdown\' are read as 'Markdown'.       *)
(***************************************************************************)
EXTENDS Integers, Sequences, FiniteSets, Bags, TLC

(* ---------------------------------------------------------------- bounds *)
MaxTrades == 1
MaxCreations == 2
MaxInFlight == 2
MaxTime == 2
MaxCopies == 2
MaxPrice == 1000
MaxUserDocs == 4

(* ------------------------------------------------------------- constants *)
None == 0
NoneStr == "None"

END == -1
ITEM_CATEGORY == 0
ITEM_DESCRIPTION == 1
PRICE == 2
CURRENCY == 3
PAYMENT_METHOD == 4
DEADLINE == 5
COUNTERPARTY_ID == 6
CONFIRMATION == 7
SUBMIT_PAYMENT_PROOF == 0
REFUND_REASON == 0

Users == {1, 2, 3}
ADMIN_IDS == {3}

Username(u) == <<"user1", "user2", "user3">>[u]

TradeIds == 1 .. MaxTrades

Statuses ==
    {"pending_buyer_approval", "approved", "rejected", "payment_pending",
     "payment_verified", "payment_failed", "asset_released", "completed",
     "refund_initiated", "refund_processed", "canceled"}

(* ------------------------------------------------------------- variables *)
VARIABLES
    users_collection,   \* sequence of user documents, in insertion order
    trades_collection,  \* sequence of trade documents, in insertion order
    user_data,          \* context.user_data, one dictionary per user
    trade_conv,         \* state of trade_conv_handler, per user
    proof_conv,         \* state of payment_proof_conv_handler, per user
    refund_conv,        \* state of refund_conv_handler, per user
    inflight,           \* handlers between their storage read and their write
    now,                \* get_current_time()
    sent,               \* bag of the success replies and notifications sent
    payments_collection, \* src/main.py: sequence of payment documents
    main_refund_conv,   \* src/main.py: state of refund_conv_handler, per user
    main_user_data      \* src/main.py: user_data["refund_trade_id"], per user

(* The state of src/main.py besides the two shared collections. *)
main_vars == <<payments_collection, main_refund_conv, main_user_data>>

vars == <<users_collection, trades_collection, user_data, trade_conv, proof_conv,
          refund_conv, inflight, now, sent, main_vars>>

(* --------------------------------------------------------------- helpers *)
is_admin(user_id) == user_id \in ADMIN_IDS

get_current_time == now

EmptyUserData ==
    [trade_initiator_id |-> None, item_category |-> NoneStr,
     item_description |-> NoneStr, price |-> None, currency |-> NoneStr,
     payment_method |-> NoneStr, deadline |-> None, buyer_id |-> None,
     buyer_username |-> NoneStr, fee_amount |-> None, current_trade_id |-> None]

(* find_one({"trade_id": tid}): the first matching document, if any. *)
Matching(tid) == {i \in DOMAIN trades_collection : trades_collection[i].trade_id = tid}

Found(tid) == Matching(tid) # {}

FirstIndex(tid) == CHOOSE i \in Matching(tid) : \A j \in Matching(tid) : i <= j

FindOne(tid) == trades_collection[FirstIndex(tid)]

(* update_one that applies nothing. *)
UpdateOneMutant(tid, fields) == trades_collection

(* update_one({"trade_id": tid}, {"$set": fields}): the first matching
   document gets the fields; no document matching is a no-op. *)
UpdateOne(tid, fields) ==
    IF Found(tid)
    THEN [trades_collection EXCEPT ![FirstIndex(tid)] =
            [k \in DOMAIN @ \cup DOMAIN fields |->
                IF k \in DOMAIN fields THEN fields[k] ELSE @[k]]]
    ELSE trades_collection

(* users_collection.find_one({"telegram_id": id}) / ({"username": name}) *)
UsersById(id) == {i \in DOMAIN users_collection : users_collection[i].telegram_id = id}

UsersByName(name) == {i \in DOMAIN users_collection : users_collection[i].username = name}

FirstOf(S) == CHOOSE i \in S : \A j \in S : i <= j

(* A message recorded in `sent`; a message is counted up to MaxCopies. *)
Msg(to, kind, tid) == [to |-> to, kind |-> kind, trade_id |-> tid]

Send(bag, m) == IF CopiesIn(m, bag) >= MaxCopies THEN bag ELSE bag (+) SetToBag({m})

RECURSIVE SendAll(_, _)
SendAll(bag, ms) ==
    IF ms = <<>> THEN bag ELSE SendAll(Send(bag, Head(ms)), Tail(ms))

(* One message per administrator (for admin_id in ADMIN_IDS). *)
RECURSIVE ToAdmins(_, _, _)
ToAdmins(admins, kind, tid) ==
    IF admins = {} THEN <<>>
    ELSE LET a == CHOOSE x \in admins : \A y \in admins : x <= y
         IN <<Msg(a, kind, tid)>> \o ToAdmins(admins \ {a}, kind, tid)

(* round(price_val * 0.025, 2) on a price of whole cents, in cents.  Python
   rounds the binary product to the nearest cent; when the exact product lies
   on half a cent the result follows the binary value of the product, which
   for the prices listed is below (or, for 5.00, exactly on and rounded to
   even) the half. *)
TieRoundsDown == {60, 140, 460, 500, 580, 820, 860}

Fee(price) ==
    LET n == price * 25
        q == n \div 1000
        r == n % 1000
    IN IF r < 500 THEN q
       ELSE IF r > 500 THEN q + 1
       ELSE IF price \in TieRoundsDown THEN q ELSE q + 1

(* ------------------------------------------------------------------ Init *)
Init ==
    /\ users_collection = <<>>
    /\ trades_collection = <<>>
    /\ user_data = [u \in Users |-> EmptyUserData]
    /\ trade_conv = [u \in Users |-> END]
    /\ proof_conv = [u \in Users |-> END]
    /\ refund_conv = [u \in Users |-> END]
    /\ inflight = {}
    /\ now = 0
    /\ sent = EmptyBag
    /\ payments_collection = <<>>
    /\ main_refund_conv = [u \in Users |-> END]
    /\ main_user_data = [u \in Users |-> None]

(* States of trade_conv_handler whose handler is a MessageHandler for
   filters.TEXT & ~filters.COMMAND: a text message of a user in one of these
   states is consumed by trade_conv_handler, the first handler added. *)
TradeTextStates == {ITEM_DESCRIPTION, PRICE, CURRENCY, DEADLINE, COUNTERPARTY_ID}

(* ------------------------------------------------------ registration *)
(* register_user: insert when find_one finds nothing, else update_one. *)
register_user(user_id, username) ==
    IF UsersById(user_id) = {}
    THEN Append(users_collection,
                [telegram_id |-> user_id, username |-> username,
                 is_admin |-> user_id \in ADMIN_IDS,
                 created_at |-> get_current_time, updated_at |-> get_current_time])
    ELSE [users_collection EXCEPT ![FirstOf(UsersById(user_id))] =
            [@ EXCEPT !.username = username, !.updated_at = get_current_time]]

(* /start *)
start(u) ==
    /\ users_collection' = register_user(u, Username(u))
    /\ UNCHANGED <<main_vars, trades_collection, user_data, trade_conv, proof_conv, refund_conv,
                   inflight, now, sent>>

(* ------------------------------------------------- the creation session *)
(* /trade: entry point of trade_conv_handler (no re-entry while it is open). *)
trade(u) ==
    /\ trade_conv[u] = END
    /\ user_data' = [user_data EXCEPT ![u].trade_initiator_id = u]
    /\ trade_conv' = [trade_conv EXCEPT ![u] = ITEM_CATEGORY]
    /\ UNCHANGED <<main_vars, users_collection, trades_collection, proof_conv, refund_conv,
                   inflight, now, sent>>

item_category(u, category) ==
    /\ trade_conv[u] = ITEM_CATEGORY
    /\ user_data' = [user_data EXCEPT ![u].item_category = category]
    /\ trade_conv' = [trade_conv EXCEPT ![u] = ITEM_DESCRIPTION]
    /\ UNCHANGED <<main_vars, users_collection, trades_collection, proof_conv, refund_conv,
                   inflight, now, sent>>

item_description(u, text) ==
    /\ trade_conv[u] = ITEM_DESCRIPTION
    /\ user_data' = [user_data EXCEPT ![u].item_description = text]
    /\ trade_conv' = [trade_conv EXCEPT ![u] = PRICE]
    /\ UNCHANGED <<main_vars, users_collection, trades_collection, proof_conv, refund_conv,
                   inflight, now, sent>>

(* The text is a number of cents (input.ok) or does not parse as a float. *)
price_input(u, input) ==
    /\ trade_conv[u] = PRICE
    /\ IF input.ok /\ input.cents > 0
       THEN /\ user_data' = [user_data EXCEPT ![u].price = input.cents]
            /\ trade_conv' = [trade_conv EXCEPT ![u] = CURRENCY]
       ELSE /\ UNCHANGED <<main_vars, user_data, trade_conv>>
    /\ UNCHANGED <<main_vars, users_collection, trades_collection, proof_conv, refund_conv,
                   inflight, now, sent>>

(* str.upper() on the currency texts of the model. *)
Upper(text) == IF text = "usd" THEN "USD" ELSE text

currency_input(u, text) ==
    /\ trade_conv[u] = CURRENCY
    /\ user_data' = [user_data EXCEPT ![u].currency = Upper(text)]
    /\ trade_conv' = [trade_conv EXCEPT ![u] = PAYMENT_METHOD]
    /\ UNCHANGED <<main_vars, users_collection, trades_collection, proof_conv, refund_conv,
                   inflight, now, sent>>

payment_method(u, method) ==
    /\ trade_conv[u] = PAYMENT_METHOD
    /\ user_data' = [user_data EXCEPT ![u].payment_method = method]
    /\ trade_conv' = [trade_conv EXCEPT ![u] = DEADLINE]
    /\ UNCHANGED <<main_vars, users_collection, trades_collection, proof_conv, refund_conv,
                   inflight, now, sent>>

(* The text is a time (input.ok) or does not match %Y-%m-%d %H:%M. *)
deadline_input(u, input) ==
    /\ trade_conv[u] = DEADLINE
    /\ IF input.ok /\ ~(input.time <= get_current_time)
       THEN /\ user_data' = [user_data EXCEPT ![u].deadline = input.time]
            /\ trade_conv' = [trade_conv EXCEPT ![u] = COUNTERPARTY_ID]
       ELSE /\ UNCHANGED <<main_vars, user_data, trade_conv>>
    /\ UNCHANGED <<main_vars, users_collection, trades_collection, proof_conv, refund_conv,
                   inflight, now, sent>>

(* The buyer id counterparty_id resolves a reference to: the number itself
   for a reference of digits (the lookup only supplies the username), the
   telegram_id of the first user document with that username otherwise. *)
ResolveBuyerId(ref) ==
    IF ref.form = "digits" THEN ref.id
    ELSE IF UsersByName(ref.name) # {}
         THEN users_collection[FirstOf(UsersByName(ref.name))].telegram_id
         ELSE None

ResolveBuyerUsername(ref) ==
    IF ref.form = "digits"
    THEN IF UsersById(ref.id) # {}
         THEN users_collection[FirstOf(UsersById(ref.id))].username
         ELSE NoneStr
    ELSE ref.name

SelfTradeCheckMutant(buyer_id, initiator) == FALSE

SelfTradeCheck(buyer_id, initiator) == buyer_id = initiator

(* A counterparty step that keeps a fee it finds in user_data. *)
counterparty_id_leftover_mutant(u, ref) ==
    /\ trade_conv[u] = COUNTERPARTY_ID
    /\ LET buyer_id == ResolveBuyerId(ref)
           buyer_username == ResolveBuyerUsername(ref)
       IN IF buyer_id = None
          THEN /\ UNCHANGED <<main_vars, user_data, trade_conv>>
          ELSE IF SelfTradeCheck(buyer_id, user_data[u].trade_initiator_id)
          THEN /\ UNCHANGED <<main_vars, user_data, trade_conv>>
          ELSE /\ user_data' = [user_data EXCEPT
                                  ![u].buyer_id = buyer_id,
                                  ![u].buyer_username = buyer_username,
                                  ![u].fee_amount =
                                      IF user_data[u].fee_amount # EmptyUserData.fee_amount
                                      THEN user_data[u].fee_amount
                                      ELSE Fee(user_data[u].price)]
               /\ trade_conv' = [trade_conv EXCEPT ![u] = CONFIRMATION]
    /\ UNCHANGED <<main_vars, users_collection, trades_collection, proof_conv, refund_conv,
                   inflight, now, sent>>

counterparty_id(u, ref) ==
    /\ trade_conv[u] = COUNTERPARTY_ID
    /\ LET buyer_id == ResolveBuyerId(ref)
           buyer_username == ResolveBuyerUsername(ref)
       IN IF buyer_id = None
          THEN /\ UNCHANGED <<main_vars, user_data, trade_conv>>
          ELSE IF SelfTradeCheck(buyer_id, user_data[u].trade_initiator_id)
          THEN /\ UNCHANGED <<main_vars, user_data, trade_conv>>
          ELSE /\ user_data' = [user_data EXCEPT
                                  ![u].buyer_id = buyer_id,
                                  ![u].buyer_username = buyer_username,
                                  ![u].fee_amount = Fee(user_data[u].price)]
               /\ trade_conv' = [trade_conv EXCEPT ![u] = CONFIRMATION]
    /\ UNCHANGED <<main_vars, users_collection, trades_collection, proof_conv, refund_conv,
                   inflight, now, sent>>

(* The documents a confirmation that has counted but not yet inserted will add. *)
PendingInserts == Cardinality({w \in inflight : w.op = "confirmation_handler"})

(* confirmation_handler up to count_documents({}) + 1; the Cancel button ends
   the session without a storage call. *)
confirmation_handler(u, data, cap) ==
    /\ trade_conv[u] = CONFIRMATION
    /\ IF data = "confirm_trade"
       THEN /\ Len(trades_collection) + PendingInserts < cap
            /\ inflight' = inflight \cup
                  {[op |-> "confirmation_handler", user |-> u,
                    trade_id |-> Len(trades_collection) + 1,
                    seller_id |-> user_data[u].trade_initiator_id,
                    buyer_id |-> user_data[u].buyer_id,
                    arg |-> NoneStr]}
            /\ UNCHANGED trade_conv
       ELSE /\ trade_conv' = [trade_conv EXCEPT ![u] = END]
            /\ UNCHANGED inflight
    /\ UNCHANGED <<main_vars, users_collection, trades_collection, user_data, proof_conv,
                   refund_conv, now, sent>>

(* f"{trade_id_prefix}{count:05d}": the prefix and the decimal digits of count,
   zeros added on the left until there are at least five of them. The model
   keeps count itself in the field trade_id. *)
unique_trade_id(count) ==
    LET RECURSIVE Digits(_)
        Digits(n) == IF n < 10 THEN <<n>> ELSE Append(Digits(n \div 10), n % 10)
        RECURSIVE ZeroPad(_, _)
        ZeroPad(s, width) == IF Len(s) >= width THEN s ELSE ZeroPad(<<0>> \o s, width)
    IN [trade_id_prefix |-> "TEB-", digits |-> ZeroPad(Digits(count), 5)]

trade_data_mutant(w) ==
    [trade_id |-> 1,
     seller_id |-> w.seller_id,
     buyer_id |-> w.buyer_id,
     item_category |-> user_data[w.user].item_category,
     item_description |-> user_data[w.user].item_description,
     price |-> user_data[w.user].price,
     currency |-> user_data[w.user].currency,
     payment_method |-> user_data[w.user].payment_method,
     deadline |-> user_data[w.user].deadline,
     status |-> "pending_buyer_approval",
     fee_amount |-> user_data[w.user].fee_amount,
     fee_currency |-> user_data[w.user].currency,
     payment_proof_url |-> NoneStr,
     dispute_status |-> "none",
     refund_reason |-> NoneStr,
     resolution_reason |-> NoneStr,
     created_at |-> get_current_time,
     updated_at |-> get_current_time]

trade_data_approved_mutant(w) ==
    [trade_data_mutant(w) EXCEPT !.trade_id = w.trade_id, !.status = "approved"]

trade_data_raised_mutant(w) ==
    [trade_data_mutant(w) EXCEPT !.trade_id = w.trade_id, !.dispute_status = "raised"]

(* The document confirmation_handler builds for insert_one. *)
trade_data(w) ==
    [trade_id |-> w.trade_id,
     seller_id |-> w.seller_id,
     buyer_id |-> w.buyer_id,
     item_category |-> user_data[w.user].item_category,
     item_description |-> user_data[w.user].item_description,
     price |-> user_data[w.user].price,
     currency |-> user_data[w.user].currency,
     payment_method |-> user_data[w.user].payment_method,
     deadline |-> user_data[w.user].deadline,
     status |-> "pending_buyer_approval",
     fee_amount |-> user_data[w.user].fee_amount,
     fee_currency |-> user_data[w.user].currency,
     payment_proof_url |-> NoneStr,
     dispute_status |-> "none",
     refund_reason |-> NoneStr,
     resolution_reason |-> NoneStr,
     created_at |-> get_current_time,
     updated_at |-> get_current_time]

(* insert_one(trade_data), the reply with the id, the invitation to the buyer. *)
confirmation_insert(w) ==
    /\ w \in inflight
    /\ w.op = "confirmation_handler"
    /\ trades_collection' = Append(trades_collection, trade_data(w))
    /\ sent' = SendAll(sent, <<Msg(w.user, "trade_confirmed", w.trade_id),
                               Msg(w.buyer_id, "invitation", w.trade_id)>>)
    /\ trade_conv' = [trade_conv EXCEPT ![w.user] = END]
    /\ inflight' = inflight \ {w}
    /\ UNCHANGED <<main_vars, users_collection, user_data, proof_conv, refund_conv, now>>

(* /cancel: the fallback of the three ConversationHandlers; the first of
   them (in the order they were added) that has a session open for the user
   takes the command and ends that session. *)
cancel(u) ==
    /\ \/ trade_conv[u] # END
       \/ proof_conv[u] # END
       \/ refund_conv[u] # END
    /\ IF trade_conv[u] # END
       THEN /\ trade_conv' = [trade_conv EXCEPT ![u] = END]
            /\ UNCHANGED <<main_vars, proof_conv, refund_conv>>
       ELSE IF proof_conv[u] # END
       THEN /\ proof_conv' = [proof_conv EXCEPT ![u] = END]
            /\ UNCHANGED <<main_vars, trade_conv, refund_conv>>
       ELSE /\ refund_conv' = [refund_conv EXCEPT ![u] = END]
            /\ UNCHANGED <<main_vars, trade_conv, proof_conv>>
    /\ UNCHANGED <<main_vars, users_collection, trades_collection, user_data, inflight, now, sent>>

(* ------------------------------------------------ the trade's lifecycle *)
(* The local variables a handler keeps from its find_one to its update_one:
   the id it was called with and the document it read. *)
Read(op, u, tid) ==
    [op |-> op, user |-> u, trade_id |-> tid,
     seller_id |-> FindOne(tid).seller_id, buyer_id |-> FindOne(tid).buyer_id,
     arg |-> NoneStr]

(* An approval that leaves updated_at as it was. *)
approve_trade_set_mutant == [status |-> "approved"]

approve_trade_set == [status |-> "approved", updated_at |-> get_current_time]

(* An approval that is refused once the deadline has passed. *)
approve_trade_deadline_mutant(u, tid) ==
    /\ IF ~Found(tid)
       THEN /\ UNCHANGED inflight
       ELSE IF FindOne(tid).buyer_id # u
       THEN /\ UNCHANGED inflight
       ELSE IF FindOne(tid).status # "pending_buyer_approval"
       THEN /\ UNCHANGED inflight
       ELSE IF FindOne(tid).deadline <= get_current_time
       THEN /\ UNCHANGED inflight
       ELSE /\ inflight' = inflight \cup {Read("approve_trade", u, tid)}
    /\ UNCHANGED <<main_vars, users_collection, trades_collection, user_data, trade_conv, proof_conv,
                   refund_conv, now, sent>>

(* approve_trade up to its last early return *)
approve_trade(u, tid) ==
    /\ IF ~Found(tid)
       THEN /\ UNCHANGED inflight
       ELSE IF FindOne(tid).buyer_id # u
       THEN /\ UNCHANGED inflight
       ELSE IF FindOne(tid).status # "pending_buyer_approval"
       THEN /\ UNCHANGED inflight
       ELSE /\ inflight' = inflight \cup {Read("approve_trade", u, tid)}
    /\ UNCHANGED <<main_vars, users_collection, trades_collection, user_data, trade_conv, proof_conv,
                   refund_conv, now, sent>>

(* approve_trade from update_one on *)
approve_trade_update(w) ==
    /\ w \in inflight
    /\ w.op = "approve_trade"
    /\ trades_collection' = UpdateOne(w.trade_id, approve_trade_set)
    /\ sent' = SendAll(sent, <<Msg(w.user, "approve_ok", w.trade_id),
                               Msg(w.seller_id, "approved", w.trade_id)>>)
    /\ inflight' = inflight \ {w}
    /\ UNCHANGED <<main_vars, users_collection, user_data, trade_conv, proof_conv, refund_conv, now>>

reject_trade_set == [status |-> "rejected", updated_at |-> get_current_time]

(* reject_trade up to its last early return *)
reject_trade(u, tid) ==
    /\ IF ~Found(tid)
       THEN /\ UNCHANGED inflight
       ELSE IF FindOne(tid).buyer_id # u
       THEN /\ UNCHANGED inflight
       ELSE IF FindOne(tid).status # "pending_buyer_approval"
       THEN /\ UNCHANGED inflight
       ELSE /\ inflight' = inflight \cup {Read("reject_trade", u, tid)}
    /\ UNCHANGED <<main_vars, users_collection, trades_collection, user_data, trade_conv, proof_conv,
                   refund_conv, now, sent>>

(* reject_trade from update_one on *)
reject_trade_update(w) ==
    /\ w \in inflight
    /\ w.op = "reject_trade"
    /\ trades_collection' = UpdateOne(w.trade_id, reject_trade_set)
    /\ sent' = SendAll(sent, <<Msg(w.user, "reject_ok", w.trade_id),
                               Msg(w.seller_id, "rejected", w.trade_id)>>)
    /\ inflight' = inflight \ {w}
    /\ UNCHANGED <<main_vars, users_collection, user_data, trade_conv, proof_conv, refund_conv, now>>

verify_payment_set == [status |-> "payment_verified", updated_at |-> get_current_time]

(* verify_payment up to its last early return *)
verify_payment(u, tid) ==
    /\ IF ~is_admin(u)
       THEN /\ UNCHANGED inflight
       ELSE IF ~Found(tid)
       THEN /\ UNCHANGED inflight
       ELSE IF FindOne(tid).status # "payment_pending"
       THEN /\ UNCHANGED inflight
       ELSE IF FindOne(tid).payment_proof_url = NoneStr
       THEN /\ UNCHANGED inflight
       ELSE /\ inflight' = inflight \cup {Read("verify_payment", u, tid)}
    /\ UNCHANGED <<main_vars, users_collection, trades_collection, user_data, trade_conv, proof_conv,
                   refund_conv, now, sent>>

(* verify_payment from update_one on *)
verify_payment_update(w) ==
    /\ w \in inflight
    /\ w.op = "verify_payment"
    /\ trades_collection' = UpdateOne(w.trade_id, verify_payment_set)
    /\ sent' = SendAll(sent, <<Msg(w.user, "verify_ok", w.trade_id),
                               Msg(w.seller_id, "payment_verified", w.trade_id),
                               Msg(w.buyer_id, "payment_verified", w.trade_id)>>)
    /\ inflight' = inflight \ {w}
    /\ UNCHANGED <<main_vars, users_collection, user_data, trade_conv, proof_conv, refund_conv, now>>

reject_payment_set_mutant == [status |-> "payment_rejected", updated_at |-> get_current_time]

reject_payment_set == [status |-> "payment_failed", updated_at |-> get_current_time]

(* reject_payment up to its last early return *)
reject_payment(u, tid) ==
    /\ IF ~is_admin(u)
       THEN /\ UNCHANGED inflight
       ELSE IF ~Found(tid)
       THEN /\ UNCHANGED inflight
       ELSE IF FindOne(tid).status # "payment_pending"
       THEN /\ UNCHANGED inflight
       ELSE /\ inflight' = inflight \cup {Read("reject_payment", u, tid)}
    /\ UNCHANGED <<main_vars, users_collection, trades_collection, user_data, trade_conv, proof_conv,
                   refund_conv, now, sent>>

(* reject_payment from update_one on *)
reject_payment_update(w) ==
    /\ w \in inflight
    /\ w.op = "reject_payment"
    /\ trades_collection' = UpdateOne(w.trade_id, reject_payment_set)
    /\ sent' = SendAll(sent, <<Msg(w.user, "reject_payment_ok", w.trade_id),
                               Msg(w.buyer_id, "payment_failed", w.trade_id),
                               Msg(w.seller_id, "payment_failed", w.trade_id)>>)
    /\ inflight' = inflight \ {w}
    /\ UNCHANGED <<main_vars, users_collection, user_data, trade_conv, proof_conv, refund_conv, now>>

force_release_set == [status |-> "asset_released", updated_at |-> get_current_time]

(* force_release up to its last early return *)
force_release(u, tid) ==
    /\ IF ~is_admin(u)
       THEN /\ UNCHANGED inflight
       ELSE IF ~Found(tid)
       THEN /\ UNCHANGED inflight
       ELSE IF FindOne(tid).status # "payment_verified"
       THEN /\ UNCHANGED inflight
       ELSE /\ inflight' = inflight \cup {Read("force_release", u, tid)}
    /\ UNCHANGED <<main_vars, users_collection, trades_collection, user_data, trade_conv, proof_conv,
                   refund_conv, now, sent>>

(* force_release from update_one on *)
force_release_update(w) ==
    /\ w \in inflight
    /\ w.op = "force_release"
    /\ trades_collection' = UpdateOne(w.trade_id, force_release_set)
    /\ sent' = SendAll(sent, <<Msg(w.user, "force_release_ok", w.trade_id),
                               Msg(w.buyer_id, "force_released", w.trade_id),
                               Msg(w.seller_id, "force_released", w.trade_id)>>)
    /\ inflight' = inflight \ {w}
    /\ UNCHANGED <<main_vars, users_collection, user_data, trade_conv, proof_conv, refund_conv, now>>

release_asset_set == [status |-> "asset_released", updated_at |-> get_current_time]

(* A release that is also accepted before the payment was verified. *)
release_asset_unverified_mutant(u, tid) ==
    /\ IF ~Found(tid)
       THEN /\ UNCHANGED inflight
       ELSE IF FindOne(tid).seller_id # u
       THEN /\ UNCHANGED inflight
       ELSE IF FindOne(tid).status \notin {"payment_pending", "payment_verified"}
       THEN /\ UNCHANGED inflight
       ELSE /\ inflight' = inflight \cup {Read("release_asset", u, tid)}
    /\ UNCHANGED <<main_vars, users_collection, trades_collection, user_data, trade_conv, proof_conv,
                   refund_conv, now, sent>>

(* release_asset up to its last early return *)
release_asset(u, tid) ==
    /\ IF ~Found(tid)
       THEN /\ UNCHANGED inflight
       ELSE IF FindOne(tid).seller_id # u
       THEN /\ UNCHANGED inflight
       ELSE IF FindOne(tid).status # "payment_verified"
       THEN /\ UNCHANGED inflight
       ELSE /\ inflight' = inflight \cup {Read("release_asset", u, tid)}
    /\ UNCHANGED <<main_vars, users_collection, trades_collection, user_data, trade_conv, proof_conv,
                   refund_conv, now, sent>>

(* release_asset from update_one on *)
release_asset_update(w) ==
    /\ w \in inflight
    /\ w.op = "release_asset"
    /\ trades_collection' = UpdateOne(w.trade_id, release_asset_set)
    /\ sent' = SendAll(sent, <<Msg(w.user, "release_ok", w.trade_id),
                               Msg(w.buyer_id, "asset_released", w.trade_id)>>)
    /\ inflight' = inflight \ {w}
    /\ UNCHANGED <<main_vars, users_collection, user_data, trade_conv, proof_conv, refund_conv, now>>

confirm_receipt_set_mutant == [status |-> "completed"]

confirm_receipt_set == [status |-> "completed", updated_at |-> get_current_time]

(* confirm_receipt up to its last early return *)
confirm_receipt(u, tid) ==
    /\ IF ~Found(tid)
       THEN /\ UNCHANGED inflight
       ELSE IF FindOne(tid).buyer_id # u
       THEN /\ UNCHANGED inflight
       ELSE IF FindOne(tid).status # "asset_released"
       THEN /\ UNCHANGED inflight
       ELSE /\ inflight' = inflight \cup {Read("confirm_receipt", u, tid)}
    /\ UNCHANGED <<main_vars, users_collection, trades_collection, user_data, trade_conv, proof_conv,
                   refund_conv, now, sent>>

(* confirm_receipt from update_one on *)
confirm_receipt_update(w) ==
    /\ w \in inflight
    /\ w.op = "confirm_receipt"
    /\ trades_collection' = UpdateOne(w.trade_id, confirm_receipt_set)
    /\ sent' = SendAll(sent, <<Msg(w.user, "confirm_receipt_ok", w.trade_id),
                               Msg(w.seller_id, "completed", w.trade_id)>>)
    /\ inflight' = inflight \ {w}
    /\ UNCHANGED <<main_vars, users_collection, user_data, trade_conv, proof_conv, refund_conv, now>>

process_refund_set == [status |-> "refund_processed", updated_at |-> get_current_time]

(* process_refund up to its last early return *)
process_refund(u, tid) ==
    /\ IF ~is_admin(u)
       THEN /\ UNCHANGED inflight
       ELSE IF ~Found(tid)
       THEN /\ UNCHANGED inflight
       ELSE IF FindOne(tid).status # "refund_initiated"
       THEN /\ UNCHANGED inflight
       ELSE /\ inflight' = inflight \cup {Read("process_refund", u, tid)}
    /\ UNCHANGED <<main_vars, users_collection, trades_collection, user_data, trade_conv, proof_conv,
                   refund_conv, now, sent>>

(* process_refund from update_one on *)
process_refund_update(w) ==
    /\ w \in inflight
    /\ w.op = "process_refund"
    /\ trades_collection' = UpdateOne(w.trade_id, process_refund_set)
    /\ sent' = SendAll(sent, <<Msg(w.user, "process_refund_ok", w.trade_id),
                               Msg(w.buyer_id, "refund_processed", w.trade_id),
                               Msg(w.seller_id, "refund_processed", w.trade_id)>>)
    /\ inflight' = inflight \ {w}
    /\ UNCHANGED <<main_vars, users_collection, user_data, trade_conv, proof_conv, refund_conv, now>>


(* ------------------------------------------------ payment proof session *)
(* /submit_payment_proof <trade_id>: entry point of payment_proof_conv_handler. *)
submit_payment_proof_command(u, tid) ==
    /\ proof_conv[u] = END
    /\ IF ~Found(tid)
       THEN /\ UNCHANGED <<main_vars, user_data, proof_conv>>
       ELSE IF FindOne(tid).buyer_id # u
       THEN /\ UNCHANGED <<main_vars, user_data, proof_conv>>
       ELSE IF FindOne(tid).status # "approved"
       THEN /\ UNCHANGED <<main_vars, user_data, proof_conv>>
       ELSE /\ user_data' = [user_data EXCEPT ![u].current_trade_id = tid]
            /\ proof_conv' = [proof_conv EXCEPT ![u] = SUBMIT_PAYMENT_PROOF]
    /\ UNCHANGED <<main_vars, users_collection, trades_collection, trade_conv, refund_conv,
                   inflight, now, sent>>

(* The message kinds of the model: a photo, a text starting with http:// or
   https://, any other text that is not a command. *)
MessageKinds == {"photo", "url", "text"}

(* The update reaches payment_proof_conv_handler: its session is open, the
   message passes filters.PHOTO | (filters.TEXT & Regex(^(http|https)://)),
   and trade_conv_handler, added before it, does not take the message. *)
ProofConvTakes(u, message) ==
    /\ proof_conv[u] = SUBMIT_PAYMENT_PROOF
    /\ message \in {"photo", "url"}
    /\ ~(message = "url" /\ trade_conv[u] \in TradeTextStates)

receive_payment_proof_set_mutant(message) ==
    [payment_proof_url |-> IF message = "photo" THEN "telegram_photo_id" ELSE message,
     status |-> "payment_pending",
     fee_amount |-> None,
     updated_at |-> get_current_time]

receive_payment_proof_set(message) ==
    [payment_proof_url |-> IF message = "photo" THEN "telegram_photo_id" ELSE message,
     status |-> "payment_pending",
     updated_at |-> get_current_time]

receive_payment_proof(u, message) ==
    /\ ProofConvTakes(u, message)
    /\ LET trade_id == user_data[u].current_trade_id
       IN IF trade_id = None
          THEN /\ UNCHANGED <<main_vars, trades_collection, sent>>
          ELSE /\ trades_collection' = UpdateOne(trade_id, receive_payment_proof_set(message))
               /\ sent' = SendAll(sent, <<Msg(u, "proof_ok", trade_id)>>
                                          \o ToAdmins(ADMIN_IDS, "proof_submitted", trade_id))
    /\ proof_conv' = [proof_conv EXCEPT ![u] = END]
    /\ UNCHANGED <<main_vars, users_collection, user_data, trade_conv, refund_conv, inflight, now>>

(* ------------------------------------------------------- refund session *)
RefundEligible == {"payment_pending", "payment_verified", "asset_released", "dispute_raised"}

(* /refund <trade_id>: entry point of refund_conv_handler. *)
refund_command(u, tid) ==
    /\ refund_conv[u] = END
    /\ IF ~Found(tid)
       THEN /\ UNCHANGED <<main_vars, user_data, refund_conv>>
       ELSE IF FindOne(tid).buyer_id # u /\ FindOne(tid).seller_id # u
       THEN /\ UNCHANGED <<main_vars, user_data, refund_conv>>
       ELSE IF FindOne(tid).status \notin RefundEligible
       THEN /\ UNCHANGED <<main_vars, user_data, refund_conv>>
       ELSE /\ user_data' = [user_data EXCEPT ![u].current_trade_id = tid]
            /\ refund_conv' = [refund_conv EXCEPT ![u] = REFUND_REASON]
    /\ UNCHANGED <<main_vars, users_collection, trades_collection, trade_conv, proof_conv,
                   inflight, now, sent>>

(* The update reaches refund_conv_handler: its session is open, the message
   passes filters.TEXT & ~filters.COMMAND, and neither trade_conv_handler nor
   payment_proof_conv_handler, both added before it, takes the message. *)
RefundConvTakes(u, message) ==
    /\ refund_conv[u] = REFUND_REASON
    /\ message \in {"url", "text"}
    /\ trade_conv[u] \notin TradeTextStates
    /\ ~ProofConvTakes(u, message)

refund_reason_input_set(message) ==
    [status |-> "refund_initiated", refund_reason |-> message,
     updated_at |-> get_current_time]

refund_reason_input(u, message) ==
    /\ RefundConvTakes(u, message)
    /\ LET trade_id == user_data[u].current_trade_id
       IN IF trade_id = None
          THEN /\ UNCHANGED <<main_vars, trades_collection, sent>>
          ELSE /\ trades_collection' = UpdateOne(trade_id, refund_reason_input_set(message))
               /\ sent' = SendAll(sent, <<Msg(u, "refund_ok", trade_id)>>
                                          \o ToAdmins(ADMIN_IDS, "refund_requested", trade_id))
    /\ refund_conv' = [refund_conv EXCEPT ![u] = END]
    /\ UNCHANGED <<main_vars, users_collection, user_data, trade_conv, proof_conv, inflight, now>>

(* ------------------------------------------------------------- disputes *)
(* /resolve_dispute <trade_id> <resolution_status>, up to its last early return *)
resolve_dispute(u, tid, resolution_status) ==
    /\ IF ~is_admin(u)
       THEN /\ UNCHANGED inflight
       ELSE IF resolution_status \notin {"completed", "refunded"}
       THEN /\ UNCHANGED inflight
       ELSE IF ~Found(tid)
       THEN /\ UNCHANGED inflight
       ELSE IF FindOne(tid).dispute_status # "raised"
       THEN /\ UNCHANGED inflight
       ELSE /\ inflight' = inflight \cup
                  {[Read("resolve_dispute", u, tid) EXCEPT !.arg = resolution_status]}
    /\ UNCHANGED <<main_vars, users_collection, trades_collection, user_data, trade_conv, proof_conv,
                   refund_conv, now, sent>>

resolve_dispute_set_mutant(resolution_status) ==
    [dispute_status |-> "resolved",
     resolution_reason |-> "No specific reason provided.",
     updated_at |-> get_current_time]

resolve_dispute_set(resolution_status) ==
    [status |-> IF resolution_status = "completed" THEN "completed" ELSE "refund_initiated",
     dispute_status |-> "resolved",
     resolution_reason |-> "No specific reason provided.",
     updated_at |-> get_current_time]

(* resolve_dispute from update_one on *)
resolve_dispute_update(w) ==
    /\ w \in inflight
    /\ w.op = "resolve_dispute"
    /\ trades_collection' = UpdateOne(w.trade_id, resolve_dispute_set(w.arg))
    /\ sent' = SendAll(sent, <<Msg(w.user, "resolve_ok", w.trade_id),
                               Msg(w.buyer_id, "dispute_resolved", w.trade_id),
                               Msg(w.seller_id, "dispute_resolved", w.trade_id)>>)
    /\ inflight' = inflight \ {w}
    /\ UNCHANGED <<main_vars, users_collection, user_data, trade_conv, proof_conv, refund_conv, now>>

(* /resolve_dispute <trade_id> of src/main.py, which works on the same
   collection escrow_bot.trades: up to its last early return.  The guard
   refuses only dispute_status none. *)
main_resolve_dispute_mutant(u, tid) ==
    /\ IF ~is_admin(u)
       THEN /\ UNCHANGED inflight
       ELSE IF ~Found(tid)
       THEN /\ UNCHANGED inflight
       ELSE /\ inflight' = inflight \cup {Read("main_resolve_dispute", u, tid)}
    /\ UNCHANGED <<main_vars, users_collection, trades_collection, user_data, trade_conv, proof_conv,
                   refund_conv, now, sent>>

main_resolve_dispute(u, tid) ==
    /\ IF ~is_admin(u)
       THEN /\ UNCHANGED inflight
       ELSE IF ~Found(tid)
       THEN /\ UNCHANGED inflight
       ELSE IF FindOne(tid).dispute_status = "none"
       THEN /\ UNCHANGED inflight
       ELSE /\ inflight' = inflight \cup {Read("main_resolve_dispute", u, tid)}
    /\ UNCHANGED <<main_vars, users_collection, trades_collection, user_data, trade_conv, proof_conv,
                   refund_conv, now, sent>>

main_resolve_dispute_set ==
    [dispute_status |-> "resolved", status |-> "dispute_resolved",
     updated_at |-> get_current_time]

(* resolve_dispute of src/main.py from update_one on *)
main_resolve_dispute_update(w) ==
    /\ w \in inflight
    /\ w.op = "main_resolve_dispute"
    /\ trades_collection' = UpdateOne(w.trade_id, main_resolve_dispute_set)
    /\ sent' = SendAll(sent, <<Msg(w.user, "main_resolve_ok", w.trade_id),
                               Msg(w.seller_id, "main_dispute_resolved", w.trade_id),
                               Msg(w.buyer_id, "main_dispute_resolved", w.trade_id)>>)
    /\ inflight' = inflight \ {w}
    /\ UNCHANGED <<main_vars, users_collection, user_data, trade_conv, proof_conv, refund_conv, now>>

(* RaiseDispute of the specification (sections 4.1, 4.5 and 6): a participant
   sets dispute_status to raised and leaves status alone.  No handler of the
   sources performs it; it is modelled from the specification, and only the
   specification SpecDispute includes it. *)
RaiseDispute(u, tid) ==
    /\ Found(tid)
    /\ u \in {FindOne(tid).buyer_id, FindOne(tid).seller_id}
    /\ FindOne(tid).dispute_status = "none"
    /\ trades_collection' = UpdateOne(tid, [dispute_status |-> "raised",
                                            updated_at |-> get_current_time])
    /\ UNCHANGED <<main_vars, users_collection, user_data, trade_conv, proof_conv, refund_conv,
                   inflight, now, sent>>

(* ------------------------------------------------- handlers of src/main.py *)
(* The data of a callback query: words joined by "_" and then the trade id,
   e.g. approve_trade_TEB-00001 is [words |-> <<"approve", "trade">>, id |-> 1]. *)
MainButtonData ==
    {[words |-> <<a, "trade">>, id |-> tid] : a \in {"approve", "reject"}, tid \in TradeIds}

(* pattern='^(approve_trade|reject_trade)_trade_' *)
MainApprovalPattern(data) ==
    /\ Len(data.words) >= 3
    /\ data.words[1] \in {"approve", "reject"}
    /\ data.words[2] = "trade"
    /\ data.words[3] = "trade"

(* query.data.partition("trade_"): the position of the first word trade *)
FirstTradeWord(data) ==
    CHOOSE k \in 1 .. Len(data.words) :
        /\ data.words[k] = "trade"
        /\ \A j \in 1 .. (k - 1) : data.words[j] # "trade"

(* action_type.rstrip("_") *)
PartitionAction(data) ==
    IF FirstTradeWord(data) = 2 THEN data.words[1] ELSE NoneStr

(* what follows the first "trade_": a trade id only if no word is left *)
PartitionTradeId(data) ==
    IF FirstTradeWord(data) = Len(data.words) THEN data.id ELSE None

(* find_one({"trade_id": trade_id, "buyer_id": buyer_id}) *)
MatchingBuyer(tid, u) == {i \in Matching(tid) : trades_collection[i].buyer_id = u}

(* handle_buyer_approval up to its last early return *)
main_handle_buyer_approval(u, data) ==
    /\ MainApprovalPattern(data)
    /\ LET trade_id == PartitionTradeId(data)
           action == PartitionAction(data)
       IN IF MatchingBuyer(trade_id, u) = {}
          THEN /\ UNCHANGED inflight
          ELSE IF trades_collection[FirstOf(MatchingBuyer(trade_id, u))].status
                      # "pending_buyer_approval"
          THEN /\ UNCHANGED inflight
          ELSE IF action \notin {"approve", "reject"}
          THEN /\ UNCHANGED inflight
          ELSE /\ inflight' = inflight \cup
                     {[Read("main_handle_buyer_approval", u, trade_id) EXCEPT !.arg = action]}
    /\ UNCHANGED <<main_vars, users_collection, trades_collection, user_data, trade_conv,
                   proof_conv, refund_conv, now, sent>>

main_handle_buyer_approval_set(action) ==
    IF action = "approve"
    THEN [status |-> "pending_payment", updated_at |-> get_current_time]
    ELSE [status |-> "cancelled", updated_at |-> get_current_time]

(* handle_buyer_approval from update_one on *)
main_handle_buyer_approval_update(w) ==
    /\ w \in inflight
    /\ w.op = "main_handle_buyer_approval"
    /\ trades_collection' = UpdateOne(w.trade_id, main_handle_buyer_approval_set(w.arg))
    /\ sent' = SendAll(sent,
                  IF w.arg = "approve"
                  THEN <<Msg(w.user, "main_approve_ok", w.trade_id),
                         Msg(w.seller_id, "main_approved", w.trade_id)>>
                  ELSE <<Msg(w.user, "main_reject_ok", w.trade_id),
                         Msg(w.seller_id, "main_rejected", w.trade_id)>>)
    /\ inflight' = inflight \ {w}
    /\ UNCHANGED <<main_vars, users_collection, user_data, trade_conv, proof_conv,
                   refund_conv, now>>

(* A verification that does not look at the status. *)
main_verify_payment_unguarded_mutant(u, tid) ==
    /\ IF ~is_admin(u)
       THEN /\ UNCHANGED inflight
       ELSE IF ~Found(tid)
       THEN /\ UNCHANGED inflight
       ELSE /\ inflight' = inflight \cup {Read("main_verify_payment", u, tid)}
    /\ UNCHANGED <<main_vars, users_collection, trades_collection, user_data, trade_conv,
                   proof_conv, refund_conv, now, sent>>

(* verify_payment of src/main.py up to its last early return *)
main_verify_payment(u, tid) ==
    /\ IF ~is_admin(u)
       THEN /\ UNCHANGED inflight
       ELSE IF ~Found(tid)
       THEN /\ UNCHANGED inflight
       ELSE IF FindOne(tid).status # "payment_awaiting_verification"
       THEN /\ UNCHANGED inflight
       ELSE /\ inflight' = inflight \cup {Read("main_verify_payment", u, tid)}
    /\ UNCHANGED <<main_vars, users_collection, trades_collection, user_data, trade_conv,
                   proof_conv, refund_conv, now, sent>>

main_verify_payment_set == [status |-> "payment_verified", updated_at |-> get_current_time]

(* the payment document of verify_payment; the trade's _id is its position *)
main_trade_payment(w) ==
    [trade_id |-> FirstIndex(w.trade_id), payer_id |-> w.buyer_id,
     type |-> "trade_payment", status |-> "verified", verified_by |-> w.user,
     reason |-> NoneStr, created_at |-> get_current_time,
     updated_at |-> get_current_time]

(* verify_payment of src/main.py from update_one on *)
main_verify_payment_update(w) ==
    /\ w \in inflight
    /\ w.op = "main_verify_payment"
    /\ trades_collection' = UpdateOne(w.trade_id, main_verify_payment_set)
    /\ payments_collection' = Append(payments_collection, main_trade_payment(w))
    /\ sent' = SendAll(sent, <<Msg(w.user, "main_verify_ok", w.trade_id),
                               Msg(w.seller_id, "main_payment_verified", w.trade_id),
                               Msg(w.buyer_id, "main_payment_verified", w.trade_id)>>)
    /\ inflight' = inflight \ {w}
    /\ UNCHANGED <<main_refund_conv, main_user_data, users_collection, user_data,
                   trade_conv, proof_conv, refund_conv, now>>

(* force_release of src/main.py up to its last early return *)
main_force_release(u, tid) ==
    /\ IF ~is_admin(u)
       THEN /\ UNCHANGED inflight
       ELSE IF ~Found(tid)
       THEN /\ UNCHANGED inflight
       ELSE IF FindOne(tid).status # "payment_verified"
       THEN /\ UNCHANGED inflight
       ELSE /\ inflight' = inflight \cup {Read("main_force_release", u, tid)}
    /\ UNCHANGED <<main_vars, users_collection, trades_collection, user_data, trade_conv,
                   proof_conv, refund_conv, now, sent>>

main_force_release_set == [status |-> "completed", updated_at |-> get_current_time]

(* force_release of src/main.py from update_one on *)
main_force_release_update(w) ==
    /\ w \in inflight
    /\ w.op = "main_force_release"
    /\ trades_collection' = UpdateOne(w.trade_id, main_force_release_set)
    /\ sent' = SendAll(sent, <<Msg(w.user, "main_force_release_ok", w.trade_id),
                               Msg(w.seller_id, "main_force_released", w.trade_id),
                               Msg(w.buyer_id, "main_force_released", w.trade_id)>>)
    /\ inflight' = inflight \ {w}
    /\ UNCHANGED <<main_vars, users_collection, user_data, trade_conv, proof_conv,
                   refund_conv, now>>

(* refund_command of src/main.py, entry point of its refund session *)
main_refund_command(u, tid) ==
    /\ main_refund_conv[u] = END
    /\ IF ~Found(tid)
       THEN UNCHANGED <<main_refund_conv, main_user_data>>
       ELSE IF FindOne(tid).buyer_id # u /\ FindOne(tid).seller_id # u
       THEN UNCHANGED <<main_refund_conv, main_user_data>>
       ELSE IF FindOne(tid).status \notin {"payment_verified", "dispute_resolved"}
       THEN UNCHANGED <<main_refund_conv, main_user_data>>
       ELSE /\ main_user_data' = [main_user_data EXCEPT ![u] = tid]
            /\ main_refund_conv' = [main_refund_conv EXCEPT ![u] = REFUND_REASON]
    /\ UNCHANGED <<payments_collection, users_collection, trades_collection, user_data,
                   trade_conv, proof_conv, refund_conv, inflight, now, sent>>

(* payments_collection.find_one({"trade_id": _id, "type": type, "status": status}) *)
MatchingPayment(id, type, status) ==
    {i \in DOMAIN payments_collection :
        /\ payments_collection[i].trade_id = id
        /\ payments_collection[i].type = type
        /\ payments_collection[i].status = status}

main_refund_reason_set == [status |-> "refund_initiated", updated_at |-> get_current_time]

(* the payment document of refund_reason *)
main_refund_payment(u, original_payment, reason) ==
    [trade_id |-> original_payment.trade_id, payer_id |-> u,
     type |-> "refund", status |-> "pending", verified_by |-> None,
     reason |-> reason, created_at |-> get_current_time,
     updated_at |-> get_current_time]

(* refund_reason: the text that the refund session of src/main.py waits for *)
main_refund_reason(u, message) ==
    /\ main_refund_conv[u] = REFUND_REASON
    /\ message = "text"
    /\ main_refund_conv' = [main_refund_conv EXCEPT ![u] = END]
    /\ LET trade_id == main_user_data[u]
       IN IF ~Found(trade_id)
          THEN UNCHANGED <<payments_collection, trades_collection, sent>>
          ELSE IF MatchingPayment(FirstIndex(trade_id), "trade_payment", "verified") = {}
          THEN UNCHANGED <<payments_collection, trades_collection, sent>>
          ELSE LET original_payment ==
                     payments_collection[FirstOf(MatchingPayment(FirstIndex(trade_id),
                                                                 "trade_payment", "verified"))]
               IN /\ payments_collection' =
                        Append(payments_collection,
                               main_refund_payment(u, original_payment, message))
                  /\ trades_collection' = UpdateOne(trade_id, main_refund_reason_set)
                  /\ sent' = SendAll(sent, <<Msg(u, "main_refund_ok", trade_id)>>
                                 \o ToAdmins(ADMIN_IDS, "main_refund_requested", trade_id))
    /\ UNCHANGED <<main_user_data, users_collection, user_data, trade_conv, proof_conv,
                   refund_conv, inflight, now>>

(* cancel_trade as the fallback of the refund session of src/main.py *)
main_cancel_trade(u) ==
    /\ main_refund_conv[u] = REFUND_REASON
    /\ main_refund_conv' = [main_refund_conv EXCEPT ![u] = END]
    /\ UNCHANGED <<payments_collection, main_user_data, users_collection,
                   trades_collection, user_data, trade_conv, proof_conv, refund_conv,
                   inflight, now, sent>>

(* verify_refund up to its last early return *)
main_verify_refund(u, tid) ==
    /\ IF ~is_admin(u)
       THEN /\ UNCHANGED inflight
       ELSE IF ~Found(tid)
       THEN /\ UNCHANGED inflight
       ELSE IF FindOne(tid).status # "refund_initiated"
       THEN /\ UNCHANGED inflight
       ELSE IF MatchingPayment(FirstIndex(tid), "refund", "pending") = {}
       THEN /\ UNCHANGED inflight
       ELSE /\ inflight' = inflight \cup {Read("main_verify_refund", u, tid)}
    /\ UNCHANGED <<main_vars, users_collection, trades_collection, user_data, trade_conv,
                   proof_conv, refund_conv, now, sent>>

main_verify_refund_set == [status |-> "refunded", updated_at |-> get_current_time]

(* verify_refund from the update_one of the payment on *)
main_verify_refund_update(w) ==
    /\ w \in inflight
    /\ w.op = "main_verify_refund"
    /\ LET i == FirstOf(MatchingPayment(FirstIndex(w.trade_id), "refund", "pending"))
       IN payments_collection' =
              [payments_collection EXCEPT ![i] =
                  [@ EXCEPT !.status = "refunded", !.verified_by = w.user,
                            !.updated_at = get_current_time]]
    /\ trades_collection' = UpdateOne(w.trade_id, main_verify_refund_set)
    /\ sent' = SendAll(sent, <<Msg(w.user, "main_verify_refund_ok", w.trade_id),
                               Msg(w.buyer_id, "main_refund_verified", w.trade_id),
                               Msg(w.seller_id, "main_refund_verified", w.trade_id)>>)
    /\ inflight' = inflight \ {w}
    /\ UNCHANGED <<main_refund_conv, main_user_data, users_collection, user_data,
                   trade_conv, proof_conv, refund_conv, now>>

(* ------------------------------------------ register_user in storage steps *)
(* /start up to the find_one of register_user, in src/main_v2.py (op start)
   or in src/main.py (op main_start), whose register_user is the same code on
   the same collection escrow_bot.users.  The handler has decided between
   insert_one and update_one when its write runs. *)
register_user_find(u, op) ==
    /\ Len(users_collection)
          + Cardinality({w \in inflight : w.arg = "insert_one"}) < MaxUserDocs
    /\ inflight' = inflight \cup
          {[op |-> op, user |-> u, trade_id |-> None, seller_id |-> None,
            buyer_id |-> None,
            arg |-> IF UsersById(u) = {} THEN "insert_one" ELSE "update_one"]}
    /\ UNCHANGED <<main_vars, users_collection, trades_collection, user_data, trade_conv,
                   proof_conv, refund_conv, now, sent>>

(* register_user from its insert_one or update_one on *)
register_user_write(w) ==
    /\ w \in inflight
    /\ w.op \in {"start", "main_start"}
    /\ users_collection' =
          IF w.arg = "insert_one"
          THEN Append(users_collection,
                      [telegram_id |-> w.user, username |-> Username(w.user),
                       is_admin |-> w.user \in ADMIN_IDS,
                       created_at |-> get_current_time,
                       updated_at |-> get_current_time])
          ELSE IF UsersById(w.user) = {} THEN users_collection
          ELSE [users_collection EXCEPT ![FirstOf(UsersById(w.user))] =
                   [@ EXCEPT !.username = Username(w.user),
                             !.updated_at = get_current_time]]
    /\ inflight' = inflight \ {w}
    /\ UNCHANGED <<main_vars, trades_collection, user_data, trade_conv, proof_conv,
                   refund_conv, now, sent>>

(* ------------------------------------------------------ storage failures *)
(* update_one or insert_one raises OperationFailure: the handler's except
   branch tells the caller of a database error and sends nothing else; the
   creation session ends. *)
storage_failure(w) ==
    /\ w \in inflight
    /\ inflight' = inflight \ {w}
    /\ sent' = Send(sent, Msg(w.user, "database_error", w.trade_id))
    /\ trade_conv' = IF w.op = "confirmation_handler"
                     THEN [trade_conv EXCEPT ![w.user] = END]
                     ELSE trade_conv
    /\ UNCHANGED <<main_vars, users_collection, trades_collection, user_data, proof_conv,
                   refund_conv, now>>

(* receive_payment_proof when its update_one raises OperationFailure *)
receive_payment_proof_failure(u, message) ==
    /\ ProofConvTakes(u, message)
    /\ user_data[u].current_trade_id # None
    /\ sent' = Send(sent, Msg(u, "database_error", user_data[u].current_trade_id))
    /\ proof_conv' = [proof_conv EXCEPT ![u] = END]
    /\ UNCHANGED <<main_vars, users_collection, trades_collection, user_data, trade_conv,
                   refund_conv, inflight, now>>

(* refund_reason_input when its update_one raises OperationFailure *)
refund_reason_input_failure(u, message) ==
    /\ RefundConvTakes(u, message)
    /\ user_data[u].current_trade_id # None
    /\ sent' = Send(sent, Msg(u, "database_error", user_data[u].current_trade_id))
    /\ refund_conv' = [refund_conv EXCEPT ![u] = END]
    /\ UNCHANGED <<main_vars, users_collection, trades_collection, user_data, trade_conv,
                   proof_conv, inflight, now>>

(* The handlers whose find_one stands outside their try block, and those
   whose find_one stands inside it. *)
FindOutsideTry ==
    {"submit_payment_proof_command", "verify_payment", "reject_payment",
     "force_release", "resolve_dispute", "release_asset", "confirm_receipt",
     "refund_command", "process_refund"}

FindInsideTry == {"approve_trade", "reject_trade"}

AdminOnly ==
    {"verify_payment", "reject_payment", "force_release", "resolve_dispute",
     "process_refund"}

(* find_one raises OperationFailure in handler op called by u for trade tid.
   Inside the try block the except branch tells the caller of the database
   error.  Outside it the exception leaves the handler: no error handler is
   registered, so the library logs the exception and the caller receives
   nothing (recorded as the message kind logged_exception). *)
find_one_failure(u, op, tid) ==
    /\ op \in AdminOnly => is_admin(u)
    /\ op = "submit_payment_proof_command" => proof_conv[u] = END
    /\ op = "refund_command" => refund_conv[u] = END
    /\ sent' = Send(sent, Msg(u, IF op \in FindInsideTry THEN "database_error"
                                                          ELSE "logged_exception", tid))
    /\ UNCHANGED <<main_vars, users_collection, trades_collection, user_data, trade_conv,
                   proof_conv, refund_conv, inflight, now>>

(* ------------------------------------------------- notification failures *)
(* verify_payment when the seller's send_message raises: a TelegramError is
   no OperationFailure and main() of src/main_v2.py registers no error
   handler, so the write and the reply to the admin stand and the
   notifications are not sent. *)
verify_payment_send_failure(w) ==
    /\ w \in inflight
    /\ w.op = "verify_payment"
    /\ trades_collection' = UpdateOne(w.trade_id, verify_payment_set)
    /\ sent' = Send(sent, Msg(w.user, "verify_ok", w.trade_id))
    /\ inflight' = inflight \ {w}
    /\ UNCHANGED <<main_vars, users_collection, user_data, trade_conv, proof_conv,
                   refund_conv, now>>

(* confirmation_handler of src/main.py from insert_one on (its session has
   the steps of src/main_v2.py's), when the buyer's send_message raises: the
   trade is inserted, the seller has read "Trade confirmed!", and the
   handler's except Exception replaces that text by "An unexpected error
   occurred. Please try again later." *)
main_confirmation_send_failure(w) ==
    /\ w \in inflight
    /\ w.op = "confirmation_handler"
    /\ trades_collection' = Append(trades_collection, trade_data(w))
    /\ sent' = SendAll(sent, <<Msg(w.user, "trade_confirmed", w.trade_id),
                               Msg(w.user, "unexpected_error", w.trade_id)>>)
    /\ trade_conv' = [trade_conv EXCEPT ![w.user] = END]
    /\ inflight' = inflight \ {w}
    /\ UNCHANGED <<main_vars, users_collection, user_data, proof_conv, refund_conv, now>>

(* ---------------------------------------------------------------- clock *)
Tick ==
    /\ now < MaxTime
    /\ now' = now + 1
    /\ UNCHANGED <<main_vars, users_collection, trades_collection, user_data, trade_conv,
                   proof_conv, refund_conv, inflight, sent>>

(* ---------------------------------------------------------------- inputs *)
Categories == {"Services"}
Descriptions == {"item"}
PriceInputs == {[ok |-> TRUE, cents |-> 10000], [ok |-> TRUE, cents |-> 0],
                [ok |-> FALSE, cents |-> 0]}
CurrencyTexts == {"usd"}
PaymentMethods == {"Bank Transfer"}
DeadlineInputs == {[ok |-> TRUE, time |-> 0], [ok |-> TRUE, time |-> MaxTime + 1],
                   [ok |-> FALSE, time |-> 0]}
DigitRefs == {[form |-> "digits", id |-> i, name |-> NoneStr] : i \in Users}
NameRefs == {[form |-> f, id |-> None, name |-> Username(i)] :
                f \in {"at", "plain"}, i \in Users}
Resolutions == {"completed", "refunded", "other"}

(* ------------------------------------------------------ next-state relations *)
(* The steps of the creation session of user u. *)
CreationStep(u, refs, cap) ==
    \/ trade(u)
    \/ \E c \in Categories : item_category(u, c)
    \/ \E d \in Descriptions : item_description(u, d)
    \/ \E i \in PriceInputs : price_input(u, i)
    \/ \E c \in CurrencyTexts : currency_input(u, c)
    \/ \E m \in PaymentMethods : payment_method(u, m)
    \/ \E i \in DeadlineInputs : deadline_input(u, i)
    \/ \E r \in refs : counterparty_id(u, r)
    \/ \E d \in {"confirm_trade", "cancel_trade"} : confirmation_handler(u, d, cap)

(* The commands and buttons of the main path of a trade. *)
MainStep(u, tid) ==
    \/ approve_trade(u, tid)
    \/ reject_trade(u, tid)
    \/ submit_payment_proof_command(u, tid)
    \/ \E m \in MessageKinds : receive_payment_proof(u, m)
    \/ verify_payment(u, tid)
    \/ reject_payment(u, tid)
    \/ force_release(u, tid)
    \/ release_asset(u, tid)
    \/ confirm_receipt(u, tid)

(* The commands of the refund and dispute branches, and /cancel. *)
BranchStep(u, tid) ==
    \/ refund_command(u, tid)
    \/ \E m \in MessageKinds : refund_reason_input(u, m)
    \/ process_refund(u, tid)
    \/ \E r \in Resolutions : resolve_dispute(u, tid, r)
    \/ cancel(u)

(* The second half of a handler that has read and now writes. *)
MainWrite(w) ==
    \/ confirmation_insert(w)
    \/ approve_trade_update(w)
    \/ reject_trade_update(w)
    \/ verify_payment_update(w)
    \/ reject_payment_update(w)
    \/ force_release_update(w)
    \/ release_asset_update(w)
    \/ confirm_receipt_update(w)

Sellers == {1}

(* The handlers a message of some user starts.  No handler of the sources
   writes dispute_status = raised, so resolve_dispute never gets past its
   early returns; its write is a step of SpecDispute alone. *)
UserStep ==
    \/ \E u \in Sellers : CreationStep(u, DigitRefs, MaxTrades)
    \/ \E u \in Users, tid \in TradeIds : MainStep(u, tid)
    \/ \E u \in Users, tid \in TradeIds : BranchStep(u, tid)

WriteStep ==
    \E w \in inflight : MainWrite(w) \/ process_refund_update(w)

(* The bot as main() runs it: one Application whose updates are handled one
   after the other, so a handler's write follows its read with nothing in
   between; sessions that span several messages interleave freely. *)
Next ==
    \/ /\ inflight = {}
       /\ \/ UserStep
          \/ Tick
    \/ WriteStep

Spec == Init /\ [][Next]_vars

(* Several callers at once (section 5 of the specification): up to
   MaxInFlight handlers are between their storage read and their storage
   write, and their storage steps interleave.  The steps are those of the
   creation session and of the main path of a trade. *)
NextRace ==
    \/ /\ Cardinality(inflight) < MaxInFlight
       /\ \/ \E u \in Sellers : CreationStep(u, DigitRefs, MaxTrades)
          \/ \E u \in Users, tid \in TradeIds : MainStep(u, tid)
    \/ \E w \in inflight : MainWrite(w)

SpecRace == Init /\ [][NextRace]_vars

(* The serial bot together with RaiseDispute of the specification. *)
NextDispute ==
    \/ /\ inflight = {}
       /\ \/ UserStep
          \/ \E u \in Users, tid \in TradeIds : RaiseDispute(u, tid)
    \/ WriteStep
    \/ \E w \in inflight : resolve_dispute_update(w)

SpecDispute == Init /\ [][NextDispute]_vars

(* Registration and creation sessions alone, for several sellers whose
   confirmations may interleave, with every form of counterparty reference. *)
Creators == {1, 2}

CreatorRefs == {r \in DigitRefs : r.id \in Creators}
                  \cup {r \in NameRefs : r.name \in {Username(u) : u \in Creators}}

NextCreate ==
    \/ /\ Cardinality(inflight) < MaxInFlight
       /\ \/ \E u \in Creators : start(u)
          \/ \E u \in Creators : CreationStep(u, CreatorRefs, MaxCreations)
          \/ \E u \in Creators : cancel(u)
    \/ \E w \in inflight : confirmation_insert(w)

SpecCreate == Init /\ [][NextCreate]_vars

(* The handlers of src/main_v2.py with RaiseDispute, and the dispute
   resolution of src/main.py on the same collection. *)
NextDisputeBoth ==
    \/ NextDispute
    \/ /\ inflight = {}
       /\ \E u \in Users, tid \in TradeIds : main_resolve_dispute(u, tid)
    \/ \E w \in inflight : main_resolve_dispute_update(w)

SpecDisputeBoth == Init /\ [][NextDisputeBoth]_vars

(* The handlers of the trade's path and of the refund branch run one at a
   time, every storage write either applied or failing with OperationFailure. *)
NextFail ==
    \/ /\ inflight = {}
       /\ \/ \E u \in Sellers : CreationStep(u, DigitRefs, MaxTrades)
          \/ \E u \in Users, tid \in TradeIds : MainStep(u, tid)
          \/ \E u \in Users, tid \in TradeIds : refund_command(u, tid)
          \/ \E u \in Users, m \in MessageKinds : refund_reason_input(u, m)
          \/ \E u \in Users, tid \in TradeIds : process_refund(u, tid)
          \/ \E u \in Users, m \in MessageKinds : receive_payment_proof_failure(u, m)
          \/ \E u \in Users, m \in MessageKinds : refund_reason_input_failure(u, m)
    \/ WriteStep
    \/ \E w \in inflight : storage_failure(w)

SpecFail == Init /\ [][NextFail]_vars

(* The callback data that reaches handle_buyer_approval of src/main.py:
   the buttons of its invitation and data of the form its pattern expects. *)
MainCallbackData ==
    MainButtonData \cup
    {[words |-> <<a, "trade", "trade">>, id |-> tid] :
        a \in {"approve", "reject"}, tid \in TradeIds}

(* The handlers of src/main.py on the collections it shares with
   src/main_v2.py (both open client.escrow_bot), every handler run to its
   end before the next starts. *)
MainPyStep ==
    \/ \E u \in Users, d \in MainCallbackData : main_handle_buyer_approval(u, d)
    \/ \E u \in Users, tid \in TradeIds : main_verify_payment(u, tid)
    \/ \E u \in Users, tid \in TradeIds : main_force_release(u, tid)
    \/ \E u \in Users, tid \in TradeIds : main_resolve_dispute(u, tid)
    \/ \E u \in Users, tid \in TradeIds : main_refund_command(u, tid)
    \/ \E u \in Users, m \in MessageKinds : main_refund_reason(u, m)
    \/ \E u \in Users : main_cancel_trade(u)
    \/ \E u \in Users, tid \in TradeIds : main_verify_refund(u, tid)

MainPyWrite(w) ==
    \/ main_handle_buyer_approval_update(w)
    \/ main_verify_payment_update(w)
    \/ main_force_release_update(w)
    \/ main_resolve_dispute_update(w)
    \/ main_verify_refund_update(w)

NextMainPy ==
    \/ /\ inflight = {}
       /\ \/ \E u \in Sellers : CreationStep(u, DigitRefs, MaxTrades)
          \/ \E u \in Users, tid \in TradeIds : MainStep(u, tid)
          \/ MainPyStep
    \/ \E w \in inflight : MainWrite(w) \/ MainPyWrite(w)

SpecMainPy == Init /\ [][NextMainPy]_vars

(* The bot of src/main.py on a database of its own: its creation session
   (the steps of src/main_v2.py's), its commands and buttons, and the clock. *)
NextMainAlone ==
    \/ /\ inflight = {}
       /\ \/ \E u \in Sellers : CreationStep(u, DigitRefs, MaxTrades)
          \/ MainPyStep
          \/ Tick
    \/ \E w \in inflight : confirmation_insert(w) \/ MainPyWrite(w)

SpecMainAlone == Init /\ [][NextMainAlone]_vars

(* The creation session and the main path, every handler run to its end
   before the next starts, where a send_message that follows a write may
   raise. *)
NextNotify ==
    \/ /\ inflight = {}
       /\ \/ \E u \in Sellers : CreationStep(u, DigitRefs, MaxTrades)
          \/ \E u \in Users, tid \in TradeIds : MainStep(u, tid)
    \/ \E w \in inflight : MainWrite(w)
    \/ \E w \in inflight : verify_payment_send_failure(w)
    \/ \E w \in inflight : main_confirmation_send_failure(w)

SpecNotify == Init /\ [][NextNotify]_vars

(* Several callers at once, with RaiseDispute of the specification and
   /resolve_dispute: up to MaxInFlight handlers are between their storage
   read and their storage write. *)
NextDisputeRace ==
    \/ /\ Cardinality(inflight) < MaxInFlight
       /\ \/ \E u \in Sellers : CreationStep(u, DigitRefs, MaxTrades)
          \/ \E u \in Users, tid \in TradeIds : MainStep(u, tid)
          \/ \E u \in Users, tid \in TradeIds : RaiseDispute(u, tid)
          \/ \E u \in Users, tid \in TradeIds, r \in Resolutions :
                resolve_dispute(u, tid, r)
    \/ \E w \in inflight : MainWrite(w) \/ resolve_dispute_update(w)

SpecDisputeRace == Init /\ [][NextDisputeRace]_vars

(* The creation session of one seller while the clock advances between its
   messages, over every deadline the clock can pass. *)
ClockDeadlines == {[ok |-> TRUE, time |-> t] : t \in 0 .. (MaxTime + 1)}

NextDeadline ==
    \/ /\ inflight = {}
       /\ \/ Tick
          \/ \E u \in Sellers :
                \/ trade(u)
                \/ \E c \in Categories : item_category(u, c)
                \/ \E d \in Descriptions : item_description(u, d)
                \/ \E i \in PriceInputs : price_input(u, i)
                \/ \E c \in CurrencyTexts : currency_input(u, c)
                \/ \E m \in PaymentMethods : payment_method(u, m)
                \/ \E i \in ClockDeadlines : deadline_input(u, i)
                \/ \E r \in DigitRefs : counterparty_id(u, r)
                \/ \E d \in {"confirm_trade", "cancel_trade"} :
                      confirmation_handler(u, d, MaxCreations)
    \/ \E w \in inflight : confirmation_insert(w)

SpecDeadline == Init /\ [][NextDeadline]_vars

(* The serial bot with one seller whose trade may have any deadline the
   clock can pass; the other inputs of the creation session are fixed. *)
NextExpiry ==
    \/ /\ inflight = {}
       /\ \/ Tick
          \/ \E u \in Sellers :
                \/ trade(u)
                \/ \E c \in Categories : item_category(u, c)
                \/ \E d \in Descriptions : item_description(u, d)
                \/ price_input(u, [ok |-> TRUE, cents |-> 10000])
                \/ \E c \in CurrencyTexts : currency_input(u, c)
                \/ \E m \in PaymentMethods : payment_method(u, m)
                \/ \E i \in ClockDeadlines : deadline_input(u, i)
                \/ counterparty_id(u, [form |-> "digits", id |-> 2, name |-> NoneStr])
                \/ confirmation_handler(u, "confirm_trade", MaxTrades)
          \/ \E u \in Users, tid \in TradeIds : MainStep(u, tid)
          \/ \E u \in Users, tid \in TradeIds : BranchStep(u, tid)
    \/ WriteStep

SpecExpiry == Init /\ [][NextExpiry]_vars

(* The handlers of the trade's path run one at a time, every storage call,
   read or write, either answering or failing with OperationFailure. *)
NextStorage ==
    \/ /\ inflight = {}
       /\ \/ \E u \in Sellers : CreationStep(u, DigitRefs, MaxTrades)
          \/ \E u \in Users, tid \in TradeIds : MainStep(u, tid)
          \/ \E u \in ADMIN_IDS, op \in FindOutsideTry \cup FindInsideTry, tid \in TradeIds :
                find_one_failure(u, op, tid)
    \/ \E w \in inflight : MainWrite(w)
    \/ \E w \in inflight : storage_failure(w)

SpecStorage == Init /\ [][NextStorage]_vars

(* /start of several users, to either bot, with up to MaxInFlight handlers
   between the find_one and the write of register_user. *)
NextRegister ==
    \/ /\ Cardinality(inflight) < MaxInFlight
       /\ \E u \in Users, op \in {"start", "main_start"} : register_user_find(u, op)
    \/ \E w \in inflight : register_user_write(w)
    \/ Tick

SpecRegister == Init /\ [][NextRegister]_vars

(* The creation session of one seller over every price of whole cents up to
   MaxPrice and the price 100.00: counterparty_id stores the fee of the price
   entered. *)
FeePrices == {[ok |-> TRUE, cents |-> c] : c \in (1 .. MaxPrice) \cup {10000}}

NextFee ==
    \E u \in Sellers :
        \/ trade(u)
        \/ \E c \in Categories : item_category(u, c)
        \/ \E d \in Descriptions : item_description(u, d)
        \/ \E i \in FeePrices : price_input(u, i)
        \/ \E c \in CurrencyTexts : currency_input(u, c)
        \/ \E m \in PaymentMethods : payment_method(u, m)
        \/ \E i \in DeadlineInputs : deadline_input(u, i)
        \/ \E r \in DigitRefs : counterparty_id(u, r)

SpecFee == Init /\ [][NextFee]_vars

(* One seller who abandons creation sessions with /cancel or the Cancel
   button and starts again, entering one of two prices each time; user_data
   keeps what the earlier session stored. *)
NextRestart ==
    \/ /\ inflight = {}
       /\ \E u \in Sellers :
             \/ trade(u)
             \/ \E c \in Categories : item_category(u, c)
             \/ \E d \in Descriptions : item_description(u, d)
             \/ \E p \in {10000, 20000} : price_input(u, [ok |-> TRUE, cents |-> p])
             \/ \E c \in CurrencyTexts : currency_input(u, c)
             \/ \E m \in PaymentMethods : payment_method(u, m)
             \/ deadline_input(u, [ok |-> TRUE, time |-> MaxTime + 1])
             \/ \E r \in DigitRefs : counterparty_id(u, r)
             \/ \E d \in {"confirm_trade", "cancel_trade"} :
                   confirmation_handler(u, d, MaxCreations)
             \/ cancel(u)
    \/ \E w \in inflight : confirmation_insert(w)

SpecRestart == Init /\ [][NextRestart]_vars

(* Two users who each sell one trade to the other, handlers run one at a
   time: the creation session with one input per step, approval, the proof
   session and the entry of the refund session. *)
TwoRefs == {r \in DigitRefs : r.id \in Creators}

TwoStep(u, tid) ==
    \/ trade(u)
    \/ \E c \in Categories : item_category(u, c)
    \/ \E d \in Descriptions : item_description(u, d)
    \/ price_input(u, [ok |-> TRUE, cents |-> 10000])
    \/ \E c \in CurrencyTexts : currency_input(u, c)
    \/ \E m \in PaymentMethods : payment_method(u, m)
    \/ deadline_input(u, [ok |-> TRUE, time |-> MaxTime + 1])
    \/ \E r \in TwoRefs : counterparty_id(u, r)
    \/ confirmation_handler(u, "confirm_trade", MaxCreations)
    \/ approve_trade(u, tid)
    \/ submit_payment_proof_command(u, tid)
    \/ \E m \in MessageKinds : receive_payment_proof(u, m)
    \/ refund_command(u, tid)

NextTwo ==
    \/ /\ inflight = {}
       /\ \E u \in Creators, tid \in 1 .. MaxCreations : TwoStep(u, tid)
    \/ \E w \in inflight : confirmation_insert(w) \/ approve_trade_update(w)

SpecTwo == Init /\ [][NextTwo]_vars

(* The same two users, where user 1 also sends the text that ends a refund
   session. *)
NextTwoRefund ==
    \/ NextTwo
    \/ /\ inflight = {}
       /\ refund_reason_input(1, "text")

SpecTwoRefund == Init /\ [][NextTwoRefund]_vars

(* ================================================================ claims *)
(* The number of messages of a kind sent about a trade id (each message is
   counted up to MaxCopies). *)
Count(kind, tid) ==
    LET ms == {m \in BagToSet(sent) : m.kind = kind /\ m.trade_id = tid}
    IN BagCardinality([m \in ms |-> sent[m]])

SentTo(to, kind, tid) == CopiesIn(Msg(to, kind, tid), sent)

(* The terminal statuses of the specification's glossary. *)
TerminalStatuses ==
    {"completed", "rejected", "payment_failed", "refund_processed", "canceled"}

(* The transition table of the specification, as a set of edges. *)
Edges ==
    {<<"pending_buyer_approval", "approved">>,
     <<"pending_buyer_approval", "rejected">>,
     <<"approved", "payment_pending">>,
     <<"payment_pending", "payment_verified">>,
     <<"payment_pending", "payment_failed">>,
     <<"payment_verified", "asset_released">>,
     <<"asset_released", "completed">>,
     <<"payment_pending", "refund_initiated">>,
     <<"payment_verified", "refund_initiated">>,
     <<"asset_released", "refund_initiated">>,
     <<"refund_initiated", "refund_processed">>}

(* C1: every change of a trade's persisted status is an edge of the
   transition table; no skipped or reversed edge is ever written. *)
C1_StatusChangesAreEdges ==
    [][\A i \in DOMAIN trades_collection :
          trades_collection'[i].status # trades_collection[i].status
          => <<trades_collection[i].status, trades_collection'[i].status>> \in Edges]_vars

(* C2: once a trade's persisted status is terminal, no later operation
   changes that trade's status again. *)
C2_TerminalIsFinal ==
    [][\A i \in DOMAIN trades_collection :
          trades_collection[i].status \in TerminalStatuses
          => trades_collection'[i].status = trades_collection[i].status]_vars

(* C5: ProcessRefund is accepted at most once per trade. *)
C5_RefundProcessedOnce ==
    \A tid \in TradeIds : Count("process_refund_ok", tid) <= 1

(* C3: when the buyer's Approve and Reject race on one trade, exactly one of
   them reports success and the seller is never notified of both an approval
   and a rejection. *)
C3_ApproveRejectExclusive ==
    \A tid \in TradeIds :
        /\ ~(Count("approve_ok", tid) >= 1 /\ Count("reject_ok", tid) >= 1)
        /\ ~(Count("approved", tid) >= 1 /\ Count("rejected", tid) >= 1)

(* C4: concurrently confirmed trades carry pairwise distinct trade_id values;
   there is exactly one trade document per trade_id. *)
C4_TradeIdsDistinct ==
    \A i, j \in DOMAIN trades_collection :
        i # j => trades_collection[i].trade_id # trades_collection[j].trade_id

(* C6: when the seller's ReleaseAsset and an admin's ForceRelease race on one
   trade, at most one of them reports a release and the buyer receives at most
   one release notification. *)
C6_ReleaseExclusive ==
    \A tid \in TradeIds :
        /\ ~(Count("release_ok", tid) >= 1 /\ Count("force_release_ok", tid) >= 1)
        /\ \A i \in DOMAIN trades_collection :
              trades_collection[i].trade_id = tid
              => SentTo(trades_collection[i].buyer_id, "asset_released", tid)
                 + SentTo(trades_collection[i].buyer_id, "force_released", tid) <= 1

(* C7: when two admins race VerifyPayment and RejectPayment on one trade,
   exactly one succeeds: the parties are never told both that the payment
   failed and that it was verified. *)
C7_VerifyRejectExclusive ==
    \A tid \in TradeIds :
        /\ ~(Count("verify_ok", tid) >= 1 /\ Count("reject_payment_ok", tid) >= 1)
        /\ \A u \in Users :
              ~(SentTo(u, "payment_failed", tid) >= 1
                /\ SentTo(u, "payment_verified", tid) >= 1)

(* The steps of the uninterrupted sequence create, approve, submit proof,
   verify, release, confirm: the handler that writes each step, the status it
   finds and the status it leaves. *)
HappyFrom ==
    [approve_trade |-> "pending_buyer_approval", verify_payment |-> "payment_pending",
     release_asset |-> "payment_verified", confirm_receipt |-> "asset_released"]

HappyTo ==
    [approve_trade |-> "approved", verify_payment |-> "payment_verified",
     release_asset |-> "asset_released", confirm_receipt |-> "completed"]

(* With no handler between its read and its write and no session of the
   actor open, each step of the sequence is accepted by the handler of the
   step when the trade has the status the previous step left. *)
C8_Accepted ==
    inflight = {} =>
      /\ \A u \in Sellers :
            trade_conv[u] = CONFIRMATION /\ Len(trades_collection) < MaxTrades
            => ENABLED (confirmation_handler(u, "confirm_trade", MaxTrades) /\ inflight' # {})
      /\ \A i \in DOMAIN trades_collection :
            LET d == trades_collection[i]
                b == d.buyer_id
            IN /\ d.status = "pending_buyer_approval"
                  => ENABLED (approve_trade(b, d.trade_id) /\ inflight' # {})
               /\ d.status = "approved" /\ proof_conv[b] = END
                  => ENABLED (/\ submit_payment_proof_command(b, d.trade_id)
                              /\ proof_conv'[b] = SUBMIT_PAYMENT_PROOF
                              /\ user_data'[b].current_trade_id = d.trade_id)
               /\ /\ d.status = "approved"
                  /\ proof_conv[b] = SUBMIT_PAYMENT_PROOF
                  /\ user_data[b].current_trade_id = d.trade_id
                  /\ trade_conv[b] = END
                  => \A m \in {"photo", "url"} :
                        ENABLED (/\ receive_payment_proof(b, m)
                                 /\ trades_collection'[i].status = "payment_pending")
               /\ d.status = "payment_pending"
                  => \A a \in ADMIN_IDS :
                        ENABLED (verify_payment(a, d.trade_id) /\ inflight' # {})
               /\ d.status = "payment_verified"
                  => ENABLED (release_asset(d.seller_id, d.trade_id) /\ inflight' # {})
               /\ d.status = "asset_released"
                  => ENABLED (confirm_receipt(b, d.trade_id) /\ inflight' # {})

(* What the write of each step of the sequence leaves in the document. *)
C8_Written ==
    /\ \A i \in DOMAIN trades_collection :
          trades_collection'[i].fee_amount = trades_collection[i].fee_amount
    /\ Len(trades_collection') > Len(trades_collection)
       => LET d == trades_collection'[Len(trades_collection')]
          IN /\ d.status = "pending_buyer_approval"
             /\ d.updated_at = now
             /\ d.fee_amount = user_data[d.seller_id].fee_amount
    /\ \A w \in inflight :
          /\ inflight' = inflight \ {w}
          /\ w.op \in DOMAIN HappyFrom
          /\ FindOne(w.trade_id).status = HappyFrom[w.op]
          => LET d == trades_collection'[FirstIndex(w.trade_id)]
             IN d.status = HappyTo[w.op] /\ d.updated_at = now
    /\ \A u \in Users :
          /\ proof_conv[u] = SUBMIT_PAYMENT_PROOF
          /\ proof_conv'[u] = END
          /\ sent' # sent
          /\ Found(user_data[u].current_trade_id)
          /\ FindOne(user_data[u].current_trade_id).status = "approved"
          => LET d == trades_collection'[FirstIndex(user_data[u].current_trade_id)]
             IN /\ d.status = "payment_pending"
                /\ d.updated_at = now
                /\ d.payment_proof_url # NoneStr

(* C8: with nothing interleaved, create, approve, submit proof, verify,
   release and confirm are each accepted and the trade ends completed; every
   step rewrites updated_at with the time of the step and fee_amount keeps
   the value stored at creation. *)
C8_HappyPath == []C8_Accepted /\ [][C8_Written]_vars

(* C8 witness: a trade completed by exactly the six steps, each reported once
   and nothing else reported, its last write later than its creation. *)
C8_Witness ==
    \E i \in DOMAIN trades_collection :
        LET d == trades_collection[i]
        IN /\ d.status = "completed"
           /\ d.updated_at > d.created_at
           /\ inflight = {}
           /\ BagToSet(sent) =
                 {Msg(d.seller_id, "trade_confirmed", d.trade_id),
                  Msg(d.buyer_id, "invitation", d.trade_id),
                  Msg(d.buyer_id, "approve_ok", d.trade_id),
                  Msg(d.seller_id, "approved", d.trade_id),
                  Msg(d.buyer_id, "proof_ok", d.trade_id),
                  Msg(d.seller_id, "payment_verified", d.trade_id),
                  Msg(d.buyer_id, "payment_verified", d.trade_id),
                  Msg(d.buyer_id, "asset_released", d.trade_id),
                  Msg(d.seller_id, "release_ok", d.trade_id),
                  Msg(d.buyer_id, "confirm_receipt_ok", d.trade_id),
                  Msg(d.seller_id, "completed", d.trade_id)}
                 \cup {Msg(a, "proof_submitted", d.trade_id) : a \in ADMIN_IDS}
                 \cup {Msg(a, "verify_ok", d.trade_id) : a \in ADMIN_IDS}
           /\ \A m \in BagToSet(sent) : sent[m] = 1

(* C9: ResolveDispute with the refund outcome changes dispute_status to
   resolved and status to refund_initiated in one storage write: the write of
   a "refunded" resolution leaves both at once, and dispute_status never
   becomes resolved in a step that is not such a write of both fields. *)
C9_ResolveRefundAtomic ==
    [][\A i \in DOMAIN trades_collection :
          LET d == trades_collection[i]
              e == trades_collection'[i]
          IN /\ \A w \in inflight :
                   /\ w.op = "resolve_dispute"
                   /\ w.arg = "refunded"
                   /\ inflight' = inflight \ {w}
                   /\ i = FirstIndex(w.trade_id)
                   => e.dispute_status = "resolved" /\ e.status = "refund_initiated"
             /\ d.dispute_status # "resolved" /\ e.dispute_status = "resolved"
                => \E w \in inflight :
                      /\ w.op = "resolve_dispute"
                      /\ inflight' = inflight \ {w}
                      /\ e.status = IF w.arg = "refunded" THEN "refund_initiated"
                                                          ELSE "completed"]_vars

(* C9 witness: a dispute resolved as a refund, the trade's refund_initiated
   written by the resolution and by no refund session. *)
C9_Witness ==
    \E i \in DOMAIN trades_collection :
        LET d == trades_collection[i]
        IN /\ d.dispute_status = "resolved"
           /\ d.status = "refund_initiated"
           /\ Count("resolve_ok", d.trade_id) = 1
           /\ Count("refund_ok", d.trade_id) = 0

(* C10: a counterparty reference that resolves to the initiating seller is
   refused (the session stays at the counterparty step and stores nothing),
   every summary awaiting confirmation names a buyer other than its seller,
   and every persisted trade has buyer_id # seller_id. *)
C10_NoSelfTrade ==
    /\ \A i \in DOMAIN trades_collection :
          trades_collection[i].buyer_id # trades_collection[i].seller_id
    /\ \A w \in inflight :
          w.op = "confirmation_handler" => w.buyer_id # w.seller_id
    /\ \A u \in Users :
          /\ trade_conv[u] = CONFIRMATION
             => /\ user_data[u].trade_initiator_id = u
                /\ user_data[u].buyer_id # u
          /\ trade_conv[u] = COUNTERPARTY_ID
             => \A ref \in DigitRefs \cup NameRefs :
                   ResolveBuyerId(ref) = u
                   => ~ENABLED (/\ counterparty_id(u, ref)
                                /\ \/ trade_conv'[u] # COUNTERPARTY_ID
                                   \/ user_data' # user_data)

(* C10 witness: a seller with a persisted trade is again at the counterparty
   step, the buyer of the earlier session still in the session data, and a
   reference to the seller's own registered username is at hand. *)
C10_Witness ==
    \E u \in Users :
        /\ trade_conv[u] = COUNTERPARTY_ID
        /\ user_data[u].buyer_id # None
        /\ \E i \in DOMAIN trades_collection : trades_collection[i].seller_id = u
        /\ \E ref \in NameRefs : ResolveBuyerId(ref) = u

(* 2.5% of a price of whole cents, rounded to the cent with halves away from
   zero. *)
HalfAwayFee(price) == (price * 25 + 500) \div 1000

(* C12: the fee stored for a price is 2.5% of it rounded to two decimals with
   round-half-away-from-zero; the fee of 100.00 is 2.50. *)
C12_FeeHalfAwayFromZero ==
    \A u \in Users :
        trade_conv[u] = CONFIRMATION
        => /\ user_data[u].fee_amount = HalfAwayFee(user_data[u].price)
           /\ user_data[u].price = 10000 => user_data[u].fee_amount = 250

(* The users whose handler performs the storage write of the step: the caller
   of the handler that completes, or the sender of the message that a proof
   or refund session consumes. *)
Writers ==
    {w.user : w \in {x \in inflight : inflight' = inflight \ {x}}}
    \cup {u \in Users : proof_conv[u] = SUBMIT_PAYMENT_PROOF /\ proof_conv'[u] = END}
    \cup {u \in Users : refund_conv[u] = REFUND_REASON /\ refund_conv'[u] = END}

(* The role the transition table requires of the actor who writes a status. *)
HoldsRole(u, status, d) ==
    CASE status \in {"approved", "rejected", "payment_pending", "completed"}
             -> u = d.buyer_id
      [] status = "asset_released" -> u = d.seller_id \/ is_admin(u)
      [] status \in {"payment_verified", "payment_failed", "refund_processed"}
             -> is_admin(u)
      [] status = "refund_initiated" -> u \in {d.buyer_id, d.seller_id}
      [] OTHER -> FALSE

(* C11: every write to a trade that exists is made by an actor holding the
   role the transition table requires for the status written; a call by any
   other actor leaves the trade unchanged. *)
C11_WritesByRole ==
    [][\A i \in DOMAIN trades_collection :
          trades_collection'[i] # trades_collection[i]
          => \A u \in Writers :
                HoldsRole(u, trades_collection'[i].status, trades_collection[i])]_vars

(* C14: payment_proof_url is written at most once and only by the trade's
   buyer: once it is set no message changes it. *)
C14_ProofWrittenOnce ==
    [][\A i \in DOMAIN trades_collection :
          LET d == trades_collection[i]
              e == trades_collection'[i]
          IN /\ d.payment_proof_url # NoneStr => e.payment_proof_url = d.payment_proof_url
             /\ e.payment_proof_url # d.payment_proof_url
                => \A u \in Writers : u = d.buyer_id]_vars

(* The fields of a trade document that are set at insertion only. *)
CreationFields ==
    {"trade_id", "seller_id", "buyer_id", "item_category", "item_description",
     "price", "currency", "payment_method", "deadline", "fee_amount",
     "fee_currency", "created_at"}

(* C13: after a trade is inserted no operation changes its price, fee_amount,
   trade_id, seller_id, buyer_id, item fields, currency, payment_method or
   deadline; documents are neither removed nor reordered. *)
C13_CreationFieldsFrozen ==
    [][/\ Len(trades_collection') >= Len(trades_collection)
       /\ \A i \in DOMAIN trades_collection :
             \A k \in CreationFields :
                trades_collection'[i][k] = trades_collection[i][k]]_vars

(* C13 witness: a trade that went through approval, proof, a refund request
   and the processing of the refund. *)
C13_Witness ==
    \E i \in DOMAIN trades_collection :
        LET d == trades_collection[i]
        IN /\ d.status = "refund_processed"
           /\ d.dispute_status = "resolved"
           /\ d.payment_proof_url # NoneStr
           /\ d.refund_reason # NoneStr
           /\ d.fee_amount = Fee(d.price)

DisputeRank == [none |-> 0, raised |-> 1, resolved |-> 2]

(* C15: dispute_status only moves none -> raised -> resolved: no write of
   either program sets it to a value earlier in that order than the persisted
   one, and none writes resolved to a trade whose dispute_status is none. *)
C15_DisputeStatusOrder ==
    [][\A i \in DOMAIN trades_collection :
          LET d == trades_collection[i].dispute_status
              e == trades_collection'[i].dispute_status
          IN /\ DisputeRank[e] >= DisputeRank[d]
             /\ d = "none" => e # "resolved"]_vars

(* C15 witness: a raised dispute resolved by the handler of src/main.py. *)
C15_Witness ==
    \E i \in DOMAIN trades_collection :
        /\ trades_collection[i].dispute_status = "resolved"
        /\ trades_collection[i].status = "dispute_resolved"
        /\ Count("main_resolve_ok", trades_collection[i].trade_id) >= 1

(* The from-status the transition table requires of each handler that
   completes a storage write. *)
FromStatus ==
    [approve_trade |-> {"pending_buyer_approval"}, reject_trade |-> {"pending_buyer_approval"},
     verify_payment |-> {"payment_pending"}, reject_payment |-> {"payment_pending"},
     force_release |-> {"payment_verified"}, release_asset |-> {"payment_verified"},
     confirm_receipt |-> {"asset_released"}, process_refund |-> {"refund_initiated"}]

RefundFrom == {"payment_pending", "payment_verified", "asset_released"}

(* The step writes nothing to the trades and sends nothing. *)
NoEffect == trades_collection' = trades_collection /\ sent' = sent

(* C16: an operation invoked on a trade whose persisted status is not the
   from-status of the operation performs no write and sends no notification. *)
C16_InvalidTransitionNoWrite ==
    [][/\ \A w \in inflight :
             /\ inflight' = inflight \ {w}
             /\ w.op \in DOMAIN FromStatus
             /\ Found(w.trade_id)
             /\ FindOne(w.trade_id).status \notin FromStatus[w.op]
             => NoEffect
       /\ \A u \in Users :
             /\ proof_conv[u] = SUBMIT_PAYMENT_PROOF /\ proof_conv'[u] = END
             /\ Found(user_data[u].current_trade_id)
             /\ FindOne(user_data[u].current_trade_id).status # "approved"
             => NoEffect
       /\ \A u \in Users :
             /\ refund_conv[u] = REFUND_REASON /\ refund_conv'[u] = END
             /\ Found(user_data[u].current_trade_id)
             /\ FindOne(user_data[u].current_trade_id).status \notin RefundFrom
             /\ FindOne(user_data[u].current_trade_id).dispute_status # "raised"
             => NoEffect]_vars

(* C19: the write of refund_initiated on a refund request is applied only if,
   when it is applied, the requester is the trade's buyer or seller and the
   persisted status is payment_pending, payment_verified or asset_released,
   or the dispute_status is raised. *)
C19_RefundWriteGuarded ==
    [][\A u \in Users :
          /\ refund_conv[u] = REFUND_REASON /\ refund_conv'[u] = END
          /\ trades_collection' # trades_collection
          => LET d == FindOne(user_data[u].current_trade_id)
             IN /\ u \in {d.buyer_id, d.seller_id}
                /\ d.status \in RefundFrom \/ d.dispute_status = "raised"]_vars

RegisteredIds == {users_collection[i].telegram_id : i \in DOMAIN users_collection}

(* C18: a counterparty reference that matches no registered participant does
   not advance the session to confirmation, so the buyer_id of every summary
   awaiting confirmation and of every persisted trade is the id of a
   registered participant. *)
C18_BuyerRegistered ==
    /\ \A u \in Users :
          trade_conv[u] = CONFIRMATION => user_data[u].buyer_id \in RegisteredIds
    /\ \A i \in DOMAIN trades_collection :
          trades_collection[i].buyer_id \in RegisteredIds

(* Every persisted status is one of the closed set. *)
C20_StatusInSet ==
    \A i \in DOMAIN trades_collection : trades_collection[i].status \in Statuses

(* A status is written by the insertion of the trade or by the handler of an
   operation of the state machine. *)
C20_WrittenByOperation ==
    \A i \in DOMAIN trades_collection' :
        IF i \in DOMAIN trades_collection
        THEN trades_collection'[i].status # trades_collection[i].status
             => Writers # {}
        ELSE /\ trades_collection'[i].status = "pending_buyer_approval"
             /\ \E w \in inflight : w.op = "confirmation_handler" /\ inflight' = inflight \ {w}

(* C20: every value persisted in a trade's status belongs to the closed set
   of statuses, and every status write is made by one of the state-machine
   operations. *)
C20_ClosedStatusSet == []C20_StatusInSet /\ [][C20_WrittenByOperation]_vars

(* C20 witness: a trade whose payment an admin rejected. *)
C20_Witness ==
    \E i \in DOMAIN trades_collection :
        /\ trades_collection[i].status = "payment_failed"
        /\ Count("reject_payment_ok", trades_collection[i].trade_id) = 1

(* The status that the transition announced by a notification to the
   counterparty or to the administrators has written. *)
NotifiedStatus(kind) ==
    CASE kind = "invitation" -> "pending_buyer_approval"
      [] kind = "approved" -> "approved"
      [] kind = "rejected" -> "rejected"
      [] kind = "proof_submitted" -> "payment_pending"
      [] kind = "payment_verified" -> "payment_verified"
      [] kind = "payment_failed" -> "payment_failed"
      [] kind = "force_released" -> "asset_released"
      [] kind = "asset_released" -> "asset_released"
      [] kind = "completed" -> "completed"
      [] kind = "refund_requested" -> "refund_initiated"
      [] kind = "refund_processed" -> "refund_processed"
      [] OTHER -> NoneStr

(* The notifications that the step sends. *)
NewlySent ==
    {m \in BagToSet(sent') : CopiesIn(m, sent') > CopiesIn(m, sent)}

(* C17: a notification to a counterparty or to an administrator about a
   transition of a trade is sent only by a step that has applied the storage
   write of that transition: after the step the stored trade has the status
   the notification announces, and a step whose write fails sends the caller
   the database error and no notification. *)
C17_NotifyAfterWrite ==
    [][\A m \in NewlySent :
          /\ NotifiedStatus(m.kind) # NoneStr =>
                \E i \in DOMAIN trades_collection' :
                    /\ trades_collection'[i].trade_id = m.trade_id
                    /\ trades_collection'[i].status = NotifiedStatus(m.kind)
          /\ m.kind = "database_error" =>
                /\ trades_collection' = trades_collection
                /\ \A n \in NewlySent : n = m]_vars

(* The buyer's approval or rejection failed in storage: the buyer was told
   of the database error, the trade is still pending and the seller has no
   notification; the invitation of the applied insert has been sent. *)
C17_Witness ==
    \E i \in DOMAIN trades_collection :
        LET d == trades_collection[i]
        IN /\ d.status = "pending_buyer_approval"
           /\ SentTo(d.buyer_id, "database_error", d.trade_id) >= 1
           /\ SentTo(d.buyer_id, "invitation", d.trade_id) >= 1
           /\ Count("approved", d.trade_id) = 0
           /\ Count("rejected", d.trade_id) = 0

(* The statuses of the transition graph of the specification. *)
GraphStatuses ==
    {"pending_buyer_approval", "approved", "rejected", "payment_pending",
     "payment_verified", "payment_failed", "asset_released", "completed",
     "refund_initiated", "refund_processed", "canceled"}

MainPyOps ==
    {"main_handle_buyer_approval", "main_verify_payment", "main_force_release",
     "main_resolve_dispute", "main_verify_refund"}

(* C21: every status that a handler of src/main.py persists belongs to the
   transition graph; buyer approval writes approved, buyer rejection writes
   rejected, ForceRelease writes asset_released and refund verification
   writes refund_processed. *)
C21_MainPyStatusInGraph ==
    [][\A w \in inflight :
          (inflight' = inflight \ {w} /\ w.op \in MainPyOps /\ Found(w.trade_id)) =>
             LET status == trades_collection'[FirstIndex(w.trade_id)].status
             IN /\ status \in GraphStatuses
                /\ (w.op = "main_handle_buyer_approval" /\ w.arg = "approve")
                      => status = "approved"
                /\ (w.op = "main_handle_buyer_approval" /\ w.arg = "reject")
                      => status = "rejected"
                /\ w.op = "main_force_release" => status = "asset_released"
                /\ w.op = "main_verify_refund" => status = "refund_processed"]_vars

(* A step of the bot that raises a dispute on the i-th trade: dispute_status
   becomes raised and status stays. *)
RaisesDispute(i) ==
    /\ Next
    /\ trades_collection'[i].dispute_status = "raised"
    /\ trades_collection'[i].status = trades_collection[i].status

(* C22: a dispute can be raised on a trade: while no handler is running, a
   trade whose payment is pending and whose dispute_status is none has a step
   that sets dispute_status to raised and leaves its status unchanged. *)
C22_DisputeCanBeRaised ==
    \A i \in DOMAIN trades_collection :
        (/\ inflight = {}
         /\ trades_collection[i].status = "payment_pending"
         /\ trades_collection[i].dispute_status = "none")
        => ENABLED RaisesDispute(i)

(* C23: a resolution is accepted only for an administrator and only while
   the trade's dispute_status is raised, with the outcome completed or
   refunded, and writes status completed or refund_initiated accordingly;
   dispute_status becomes resolved by no other step.  Hence of two racing
   resolutions of one trade at most one is accepted. *)
C23_ResolveOnlyWhileRaised ==
    [][/\ \A w \in inflight :
             (w.op = "resolve_dispute" /\ inflight' = inflight \ {w}) =>
                /\ is_admin(w.user)
                /\ w.arg \in {"completed", "refunded"}
                /\ FindOne(w.trade_id).dispute_status = "raised"
                /\ trades_collection'[FirstIndex(w.trade_id)].status =
                      IF w.arg = "completed" THEN "completed" ELSE "refund_initiated"
       /\ \A i \in DOMAIN trades_collection :
             (/\ trades_collection[i].dispute_status # "resolved"
              /\ trades_collection'[i].dispute_status = "resolved")
             => \E w \in inflight :
                   /\ w.op = "resolve_dispute"
                   /\ inflight' = inflight \ {w}]_vars

(* C24: a trade that has just been inserted has a deadline strictly later
   than the time of its insertion. *)
C24_DeadlineInFuture ==
    [][\A i \in DOMAIN trades_collection' :
          i \notin DOMAIN trades_collection =>
             /\ trades_collection'[i].created_at = now
             /\ trades_collection'[i].deadline > now]_vars

(* C25: a step in which a storage call of an operation fails reports the
   database error to the caller and nothing else, sends no notification and
   leaves the trades and the payments as they were. *)
C25_FailureReportedNoWrite ==
    [][\A m \in NewlySent :
          m.kind \in {"database_error", "logged_exception"} =>
             /\ m.kind = "database_error"
             /\ NewlySent = {m}
             /\ trades_collection' = trades_collection
             /\ payments_collection' = payments_collection]_vars

(* A step of the bot that moves the i-th trade to canceled. *)
CancelsDraft(i) ==
    /\ Next
    /\ trades_collection'[i].status = "canceled"

(* A trade awaiting the buyer's approval can be cancelled. *)
C26_DraftCanBeCanceled ==
    \A i \in DOMAIN trades_collection :
        (inflight = {} /\ trades_collection[i].status = "pending_buyer_approval")
        => ENABLED CancelsDraft(i)

(* Ending the creation session by /cancel or by the Cancel button. *)
C26_SessionCancelPersistsNothing ==
    \A u \in Users :
        (trade_conv[u] # END /\ trade_conv'[u] = END /\ inflight' = inflight)
        => trades_collection' = trades_collection

(* C26: a trade in pending_buyer_approval can be moved to canceled by a
   cancel operation of its seller or buyer, and cancelling the creation
   session before the confirmation persists no trade. *)
C26_CancelDraft ==
    []C26_DraftCanBeCanceled /\ [][C26_SessionCancelPersistsNothing]_vars

(* C27: registering is an idempotent upsert: however often and however
   concurrently a participant is registered, the store holds at most one
   record of that id, with the participant's data; a record is never
   deleted. *)
C27_OneRecordPerId ==
    /\ \A id \in Users : Cardinality(UsersById(id)) <= 1
    /\ \A i \in DOMAIN users_collection :
          users_collection[i].username = Username(users_collection[i].telegram_id)

(* C28: a step that changes a trade's status writes the current clock value
   into its updated_at, and updated_at changes only in a step in which a
   handler performs its storage write, to the current clock value; a handler
   that refuses the operation writes nothing. *)
C28_UpdatedAtFollowsTransitions ==
    [][\A i \in DOMAIN trades_collection :
          LET d == trades_collection[i]
              e == trades_collection'[i]
          IN /\ e.status # d.status => e.updated_at = now
             /\ e.updated_at # d.updated_at =>
                   /\ e.updated_at = now
                   /\ Writers # {}]_vars

(* C28 witness: the buyer approved after the clock had advanced, and
   updated_at holds the later time. *)
C28_Witness ==
    \E i \in DOMAIN trades_collection :
        /\ trades_collection[i].status = "approved"
        /\ trades_collection[i].created_at < trades_collection[i].updated_at
        /\ trades_collection[i].updated_at = now
        /\ Count("approve_ok", trades_collection[i].trade_id) = 1

(* C29: a handler's storage write leaves every trade other than its target
   unchanged.  The target of a command or button is the trade id it names; a
   proof session can only have been opened by the buyer of its target, and a
   refund session by a party of its target, so the session's write leaves
   every trade of which its user is not the buyer (not a party) unchanged,
   also when the user has another session open. *)
C29_OtherTradesUnchanged ==
    [][/\ \A w \in inflight :
             inflight' = inflight \ {w} =>
                \A i \in DOMAIN trades_collection :
                   trades_collection[i].trade_id # w.trade_id
                      => trades_collection'[i] = trades_collection[i]
       /\ \A u \in Users :
             (proof_conv[u] = SUBMIT_PAYMENT_PROOF /\ proof_conv'[u] = END) =>
                \A i \in DOMAIN trades_collection :
                   trades_collection[i].buyer_id # u
                      => trades_collection'[i] = trades_collection[i]
       /\ \A u \in Users :
             (refund_conv[u] = REFUND_REASON /\ refund_conv'[u] = END) =>
                \A i \in DOMAIN trades_collection :
                   u \notin {trades_collection[i].buyer_id, trades_collection[i].seller_id}
                      => trades_collection'[i] = trades_collection[i]]_vars

(* The number a sequence of decimal digits writes. *)
DecimalValue(digits) ==
    LET RECURSIVE Value(_)
        Value(s) == IF s = <<>> THEN 0
                    ELSE 10 * Value(SubSeq(s, 1, Len(s) - 1)) + s[Len(s)]
    IN Value(digits)

(* C30: when trades are created one after another, the k-th created trade has
   the id "TEB-" followed by k written with five digits, zeros on the left; the
   ids increase strictly in creation order; no trade document is ever removed
   or given another id, so no id is issued twice. *)
C30_KthTradeHasIdK ==
    /\ \A k \in DOMAIN trades_collection :
          LET id == unique_trade_id(trades_collection[k].trade_id)
          IN /\ id.trade_id_prefix = "TEB-"
             /\ Len(id.digits) = 5
             /\ \A d \in DOMAIN id.digits : id.digits[d] \in 0 .. 9
             /\ DecimalValue(id.digits) = k
    /\ \A i, j \in DOMAIN trades_collection :
          i < j => trades_collection[i].trade_id < trades_collection[j].trade_id

C30_NoIdRemovedOrReissued ==
    /\ Len(trades_collection') >= Len(trades_collection)
    /\ \A i \in DOMAIN trades_collection :
          trades_collection'[i].trade_id = trades_collection[i].trade_id

C30_SerialTradeIds ==
    []C30_KthTradeHasIdK /\ [][C30_NoIdRemovedOrReissued]_vars

C30_Witness ==
    /\ Len(trades_collection) = 2
    /\ unique_trade_id(trades_collection[2].trade_id).digits = <<0, 0, 0, 0, 2>>

(* C31: every trade is inserted with status pending_buyer_approval,
   dispute_status none, no payment proof, the seller being the user whose
   creation session is confirmed, and created_at and updated_at both the
   clock reading at insertion; a trade document appears only by the
   confirmation of a creation session. *)
C31_InsertedAsDraft ==
    [][Len(trades_collection') # Len(trades_collection) =>
         /\ Len(trades_collection') = Len(trades_collection) + 1
         /\ LET d == trades_collection'[Len(trades_collection')]
            IN /\ d.status = "pending_buyer_approval"
               /\ d.dispute_status = "none"
               /\ d.payment_proof_url = NoneStr
               /\ d.created_at = now
               /\ d.updated_at = now
               /\ \E w \in inflight :
                     /\ w.op = "confirmation_handler"
                     /\ inflight' = inflight \ {w}
                     /\ d.seller_id = w.user]_vars

C31_Witness ==
    /\ inflight = {}
    /\ Len(trades_collection) = 1
    /\ trades_collection[1].status = "pending_buyer_approval"
    /\ trades_collection[1].seller_id = 1
    /\ trades_collection[1].created_at = 1
    /\ trades_collection[1].updated_at = 1

(* The replies that tell the caller of a failure. *)
ErrorKinds == {"database_error", "unexpected_error"}

(* C32: when a notification fails after a transition's write was applied, the
   write stays in place and the initiating actor is not told of a failure:
   a step that writes a trade sends no error reply. *)
C32_NotifyFailureNotReported ==
    [][trades_collection' # trades_collection =>
          \A u \in Users, k \in ErrorKinds, tid \in TradeIds :
             CopiesIn(Msg(u, k, tid), sent') = CopiesIn(Msg(u, k, tid), sent)]_vars

(* A handler gets past its early returns: it reads for a write, writes, or
   opens or closes a session. *)
Accepts(handler) ==
    ENABLED (/\ handler
             /\ <<inflight, trades_collection, proof_conv, refund_conv>>'
                   # <<inflight, trades_collection, proof_conv, refund_conv>>)

AcceptedOps(u, tid) ==
    <<Accepts(approve_trade(u, tid)), Accepts(reject_trade(u, tid)),
      Accepts(submit_payment_proof_command(u, tid)),
      Accepts(\E m \in MessageKinds : receive_payment_proof(u, m)),
      Accepts(verify_payment(u, tid)), Accepts(reject_payment(u, tid)),
      Accepts(force_release(u, tid)), Accepts(release_asset(u, tid)),
      Accepts(confirm_receipt(u, tid)), Accepts(refund_command(u, tid)),
      Accepts(\E m \in MessageKinds : refund_reason_input(u, m)),
      Accepts(process_refund(u, tid))>>

(* C33: the passing of a trade's deadline changes nothing: a step of the clock
   leaves every trade as it was, and every operation accepted before it is
   accepted after it and conversely. *)
C33_DeadlineIsAdvisory ==
    [][now' # now =>
          /\ trades_collection' = trades_collection
          /\ \A u \in Users, tid \in TradeIds :
                AcceptedOps(u, tid)' = AcceptedOps(u, tid)]_vars

C33_Witness ==
    \E i \in DOMAIN trades_collection :
        /\ trades_collection[i].deadline < now
        /\ trades_collection[i].status = "approved"
        /\ trades_collection[i].updated_at > trades_collection[i].deadline

(* C34: no trade is both completed and refunded: the replies that report a
   confirmed receipt (status completed written) and a processed refund
   (status refund_processed written) never both exist for one trade. *)
C34_CompletedXorRefunded ==
    \A tid \in TradeIds :
        ~(Count("confirm_receipt_ok", tid) >= 1 /\ Count("process_refund_ok", tid) >= 1)

(* C35: the proof message is written only to the trade that
   submit_payment_proof_command validated for that user: when a user's proof
   session ends, every trade the step changes had this user as buyer and the
   status approved, whatever /refund the user issued in between. *)
C35_ProofNotRedirected ==
    [][\A u \in Users :
          (proof_conv[u] = SUBMIT_PAYMENT_PROOF /\ proof_conv'[u] = END) =>
             \A i \in DOMAIN trades_collection :
                trades_collection'[i] # trades_collection[i] =>
                   /\ trades_collection[i].buyer_id = u
                   /\ trades_collection[i].status = "approved"]_vars

(* The trade has held the status: the reply that reports its write was sent. *)
HasHeld(status, tid) ==
    CASE status = "approved" -> Count("approve_ok", tid) >= 1
      [] status = "payment_pending" -> Count("proof_ok", tid) >= 1
      [] status = "payment_verified" -> Count("verify_ok", tid) >= 1
      [] status = "asset_released" ->
            Count("release_ok", tid) >= 1 \/ Count("force_release_ok", tid) >= 1
      [] status = "completed" -> Count("confirm_receipt_ok", tid) >= 1

HappyOrder == <<"approved", "payment_pending", "payment_verified", "asset_released",
                "completed">>

(* C36: a trade that is or has been completed has held approved,
   payment_pending, payment_verified and asset_released before, each first
   reached after the one before it: in every state a status of the chain that
   the trade holds or has held implies that every earlier one was held. *)
C36_CompletedAfterFullPath ==
    \A i \in DOMAIN trades_collection :
        LET tid == trades_collection[i].trade_id
        IN \A k \in 1 .. Len(HappyOrder) :
              (HasHeld(HappyOrder[k], tid) \/ trades_collection[i].status = HappyOrder[k])
                 => \A j \in 1 .. k : HasHeld(HappyOrder[j], tid)

C36_Witness ==
    \E i \in DOMAIN trades_collection :
        /\ trades_collection[i].status = "completed"
        /\ HasHeld("asset_released", trades_collection[i].trade_id)
        /\ HasHeld("payment_verified", trades_collection[i].trade_id)

(* C37: a trade whose status is none of pending_buyer_approval, approved,
   rejected has a payment proof. *)
C37_ProofBeyondApproved ==
    \A i \in DOMAIN trades_collection :
        trades_collection[i].status \notin {"pending_buyer_approval", "approved", "rejected"}
           => trades_collection[i].payment_proof_url # NoneStr

(* C38: every persisted trade's fee_amount is the fee of its own persisted
   price, also when the session that created it followed an abandoned one
   and found its data in user_data. *)
C38_FeeMatchesPrice ==
    \A i \in DOMAIN trades_collection :
        trades_collection[i].fee_amount = Fee(trades_collection[i].price)

C38_Witness ==
    /\ Len(trades_collection) = 2
    /\ trades_collection[1].seller_id = trades_collection[2].seller_id
    /\ trades_collection[1].price = 10000
    /\ trades_collection[2].price = 20000
    /\ trades_collection[2].fee_amount = 500

(* C39: dispute_status is none for every trade in every reachable state;
   /resolve_dispute never gets past its checks, no trade has the status
   dispute_raised that the refund eligibility list names, and no
   resolution_reason is ever set. *)
C39_NoDisputeEver ==
    /\ \A i \in DOMAIN trades_collection :
          /\ trades_collection[i].dispute_status = "none"
          /\ trades_collection[i].status # "dispute_raised"
          /\ trades_collection[i].resolution_reason = NoneStr
    /\ \A w \in inflight : w.op # "resolve_dispute"
    /\ \A tid \in TradeIds : Count("resolve_ok", tid) = 0

C39_Witness ==
    \E i \in DOMAIN trades_collection :
        /\ trades_collection[i].status = "refund_processed"
        /\ trades_collection[i].dispute_status = "none"
        /\ trades_collection[i].resolution_reason = NoneStr

(* C40: in src/main.py a trade never reaches payment_verified, completed,
   refund_initiated or refunded: after creation its status stays within
   pending_buyer_approval, pending_payment and cancelled, or is
   dispute_resolved on a trade whose dispute_status is not none. *)
C40_MainPyStatusStaysEarly ==
    \A i \in DOMAIN trades_collection :
        \/ trades_collection[i].status \in
              {"pending_buyer_approval", "pending_payment", "cancelled"}
        \/ /\ trades_collection[i].status = "dispute_resolved"
           /\ trades_collection[i].dispute_status # "none"

C40_Witness ==
    /\ inflight = {}
    /\ now = MaxTime
    /\ \E i \in DOMAIN trades_collection :
          /\ trades_collection[i].status = "pending_buyer_approval"
          /\ trades_collection[i].updated_at < now

====
